---- MODULE Spec2Model ----
(***************************************************************************)
(* A model of the parser of php-parser-rs (src/src/parser/mod.rs).         *)
(*                                                                         *)
(* The parser is a recursive-descent statement parser around a Pratt       *)
(* expression parser.  It is a pure function of its token vector, so the   *)
(* state machine below is the loop of Parser::parse: the initial state     *)
(* draws a token vector from a bounded set of inputs, and each step is one *)
(* iteration of that loop.  The sub-parsers are recursive operators that   *)
(* take the token vector and the cursor and return a result record         *)
(*     [ok |-> BOOLEAN, v |-> node or error, p |-> cursor afterwards].     *)
(* The cursor of a failed sub-parser is kept: the parser state is mutated  *)
(* in place, and a caller that drops an error goes on from that cursor.    *)
(*                                                                         *)
(* AST nodes and errors are tuples whose first element is the name of the  *)
(* variant.  Option values are <<"None">> and <<"Some", x>>.               *)
(***************************************************************************)
EXTENDS Integers, Sequences, FiniteSets, TLC

VARIABLES tokens, pos, ast, status, error, fmt_value, fmt_output

vars == <<tokens, pos, ast, status, error, fmt_value, fmt_output>>

----------------------------------------------------------------------------
(* Bounds of the model *)

\* longest chain of operators of one precedence level in the generated inputs
MaxChain == 3
\* largest number of arms in a generated match expression / switch statement
MaxArms == 2
\* longest token string in the exhaustively enumerated inputs
MaxLen == 4
\* longest byte string among the enumerated ones
MaxBytes == 2
\* largest number of parts after the first in a generated interpolated string
MaxParts == 2

----------------------------------------------------------------------------
(* Tokens: src/src/lexer/token.rs *)

Token(kind, val, span) == [kind |-> kind, val |-> val, span |-> span]

\* impl Default for Token: what the token iterator yields past its end
DefaultToken == Token("Eof", "", 0)

\* kinds that carry their raw bytes and print them
PayloadKinds == {"Identifier", "QualifiedIdentifier", "FullyQualifiedIdentifier",
                 "LiteralInteger", "LiteralFloat", "LiteralString", "StringPart",
                 "SingleLineComment", "MultiLineComment", "HashMarkComment",
                 "DocumentComment", "DocOpen"}

\* the one-character text of Backtick, U+0060, which a string of this module
\* cannot hold: it is written by its code point
GraveAccent == "U+0060"

\* the quote around the label of a nowdoc
SingleQuote == "'"

\* the arms of Display that print a fixed text, in the order of the source
DisplayTable ==
    ("Print" :> "print") @@
    [ Self_ |-> "self", Parent |-> "parent", Backtick |-> GraveAccent,
      BangEquals |-> "!=", From |-> "from", BitwiseNot |-> "~",
      Dollar |-> "$", HaltCompiler |-> "__halt_compiler",
      Readonly |-> "readonly", AsteriskEqual |-> "*=",
      ObjectCast |-> "(object)", UnsetCast |-> "(unset)",
      Abstract |-> "abstract", Ampersand |-> "&", And |-> "&&",
      AndEqual |-> "&=", Arrow |-> "->", NullsafeArrow |-> "?->",
      Array |-> "array", ArrayCast |-> "(array)", As |-> "as",
      Asterisk |-> "*", Attribute |-> "#[", Bang |-> "!",
      BoolCast |-> "(bool)", BooleanCast |-> "(boolean)",
      BooleanAnd |-> "&&", BooleanOr |-> "||", Break |-> "break",
      Callable |-> "callable", Caret |-> "^", CaretEquals |-> "^=",
      Case |-> "case", Catch |-> "catch", Class |-> "class",
      ClassConstant |-> "__CLASS__", Clone |-> "clone", CloseTag |-> "?>",
      Coalesce |-> "??", CoalesceEqual |-> "??=", Colon |-> ":",
      Comma |-> ",", ConcatEqual |-> ".=", Const |-> "const",
      Continue |-> "continue", IntCast |-> "(int)",
      IntegerCast |-> "(integer)", CurlyOpen |-> "{$", Declare |-> "declare",
      Decrement |-> "--", Default |-> "default", DirConstant |-> "__DIR__",
      DivEqual |-> "/=", Do |-> "do", Dot |-> ".", DotEquals |-> ".=",
      DoubleArrow |-> "=>", DoubleCast |-> "(double)", RealCast |-> "(real)",
      FloatCast |-> "(float)", DoubleColon |-> "::", DoubleEquals |-> "==",
      Echo |-> "echo", Ellipsis |-> "...", Else |-> "else",
      ElseIf |-> "elseif", Empty |-> "empty", EndDeclare |-> "enddeclare",
      EndFor |-> "endfor", EndForeach |-> "endforeach", EndIf |-> "endif",
      EndSwitch |-> "endswitch", EndWhile |-> "endwhile", Enum |-> "enum",
      Eof |-> "[end of file]", Equals |-> "=", Extends |-> "extends",
      False |-> "false", Final |-> "final", Finally |-> "finally",
      Fn |-> "fn", For |-> "for", Function |-> "function", Goto |-> "goto",
      GreaterThan |-> ">", GreaterThanEquals |-> ">=", If |-> "if",
      Implements |-> "implements", Increment |-> "++",
      InlineHtml |-> "InlineHtml", LeftBrace |-> "{", LeftBracket |-> "[",
      LeftParen |-> "(", LeftShift |-> "<<", LeftShiftEquals |-> "<<=",
      RightShift |-> ">>", RightShiftEquals |-> ">>=", LessThan |-> "<",
      LessThanEquals |-> "<=", Match |-> "match", Minus |-> "-",
      MinusEquals |-> "-=", Namespace |-> "namespace",
      NamespaceSeparator |-> "\\", New |-> "new", Null |-> "null",
      OpenTag |-> "<?php", Percent |-> "%", PercentEquals |-> "%=",
      Pipe |-> "|", PipeEquals |-> "|=", Plus |-> "+", PlusEquals |-> "+=",
      Pow |-> "**", Private |-> "private", Protected |-> "protected",
      Public |-> "public", Question |-> "?", QuestionColon |-> "?:",
      Require |-> "require", RequireOnce |-> "require_once",
      Return |-> "return", RightBrace |-> "}", RightBracket |-> "]",
      RightParen |-> ")", SemiColon |-> ";", Slash |-> "/",
      SlashEquals |-> "/=", Static |-> "static", StringCast |-> "(string)",
      BinaryCast |-> "(binary)", Switch |-> "switch", Throw |-> "throw",
      Trait |-> "trait", TripleEquals |-> "===", True |-> "true",
      Try |-> "try", Use |-> "use", Var |-> "var", Yield |-> "yield",
      While |-> "while", Global |-> "global", AngledLeftRight |-> "<>",
      Spaceship |-> "<=>", LogicalAnd |-> "and", LogicalOr |-> "or",
      LogicalXor |-> "xor", Foreach |-> "foreach", AmpersandEquals |-> "&=",
      At |-> "at", BangDoubleEquals |-> "!==", TraitConstant |-> "__TRAIT__",
      FunctionConstant |-> "__FUNCTION__", MethodConstant |-> "__METHOD__",
      LineConstant |-> "__LINE__", FileConstant |-> "__FILE__",
      DollarLeftBrace |-> "${", DoubleQuote |-> "\"", Include |-> "include",
      IncludeOnce |-> "include_once", Instanceof |-> "instanceof",
      Insteadof |-> "insteadof", Eval |-> "eval", Exit |-> "exit",
      Unset |-> "unset", Isset |-> "isset", List |-> "list",
      Interface |-> "interface", NamespaceConstant |-> "__NAMESPACE__",
      PowEquals |-> "**=" ]

\* impl Display for TokenKind.  The payload of StartDocString is
\* <<label, kind>>, that of EndDocString starts with the label.
to_string(t) ==
    IF t.kind = "StartDocString"
    THEN IF t.val[2] = "Nowdoc"
         THEN ("<<<" \o SingleQuote) \o (t.val[1] \o SingleQuote)
         ELSE "<<<" \o t.val[1]
    ELSE IF t.kind = "EndDocString" THEN t.val[1]
    ELSE IF t.kind = "Variable" THEN "$" \o t.val
    ELSE IF t.kind \in PayloadKinds THEN t.val
    ELSE DisplayTable[t.kind]

----------------------------------------------------------------------------
(* Parser state: the token vector and the cursor (State, of state.rs) *)

\* state.current
current(toks, p) == IF p <= Len(toks) THEN toks[p] ELSE DefaultToken

\* state.peek
peek(toks, p) == current(toks, p + 1)

\* state.next(): current <- peek, peek <- the iterator's next token or Default
next(p) == p + 1

is_eof(toks, p) == current(toks, p).kind = "Eof"

CommentKinds == {"SingleLineComment", "MultiLineComment", "HashMarkComment",
                 "DocumentComment"}

RECURSIVE skip_comments(_, _)
\* state.skip_comments(): step over the comment tokens at the cursor
skip_comments(toks, p) ==
    IF current(toks, p).kind \in CommentKinds
    THEN skip_comments(toks, next(p))
    ELSE p

----------------------------------------------------------------------------
(* Results and errors *)

Ok(v, p) == [ok |-> TRUE, v |-> v, p |-> p]
Err(e, p) == [ok |-> FALSE, v |-> e, p |-> p]

None == <<"None">>
Some(x) == <<"Some", x>>

ParseError_UnexpectedToken(s, span) == <<"UnexpectedToken", s, span>>
ParseError_UnexpectedEndOfFile == <<"UnexpectedEndOfFile">>
ParseError_ExpectedOneOf(list, span) == <<"ExpectedOneOf", list, span>>
ParseError_ExpectedItemDefinitionAfterAttributes(span) ==
    <<"ExpectedItemDefinitionAfterAttributes", span>>
ParseError_TryWithoutCatchOrFinally(span) == <<"TryWithoutCatchOrFinally", span>>
ParseError_MatchExpressionWithMultipleDefaultArms(span) ==
    <<"MatchExpressionWithMultipleDefaultArms", span>>

\* expected_token_err!(expected, state): the error names the alternatives and
\* the span of the current token; the cursor does not move
expected_token_err(expected, toks, p) ==
    Err(ParseError_ExpectedOneOf(expected, current(toks, p).span), p)

\* expect_token!(kinds, state, expected): step over a token of one of the
\* kinds, or fail with expected_token_err.  The source writes each expected
\* spelling between backquotes; the model writes the spelling alone.
expect_token(kinds, toks, p, expected) ==
    IF current(toks, p).kind \in kinds
    THEN Ok(current(toks, p), next(p))
    ELSE expected_token_err(expected, toks, p)

semi(toks, p) == expect_token({"SemiColon"}, toks, p, <<";">>)
colon(toks, p) == expect_token({"Colon"}, toks, p, <<":">>)
lparen(toks, p) == expect_token({"LeftParen"}, toks, p, <<"(">>)
rparen(toks, p) == expect_token({"RightParen"}, toks, p, <<")">>)
lbrace(toks, p) == expect_token({"LeftBrace"}, toks, p, <<"{">>)
rbrace(toks, p) == expect_token({"RightBrace"}, toks, p, <<"}">>)
rbracket(toks, p) == expect_token({"RightBracket"}, toks, p, <<"]">>)

----------------------------------------------------------------------------
(* Precedence table (internal/precedence.rs).  The levels are the rows of   *)
(* the precedence table of the specification, lowest first; Rust compares   *)
(* the variants of the enum by their order.  Two levels that the parser     *)
(* names but the table does not list are placed where the language places   *)
(* them: Print below the assignments, Concat between comparison and shift.  *)

Precedence_Lowest == 0
Precedence_Print == 1
Precedence_Assignment == 2
Precedence_Ternary == 3
Precedence_NullCoalesce == 4
Precedence_Or == 5
Precedence_And == 6
Precedence_BitwiseOr == 7
Precedence_BitwiseXor == 8
Precedence_BitwiseAnd == 9
Precedence_Equality == 10
Precedence_LtGt == 11
Precedence_Concat == 12
Precedence_BitShift == 13
Precedence_AddSub == 14
Precedence_MulDivMod == 15
Precedence_Bang == 16
Precedence_Instanceof == 17
Precedence_Prefix == 18
Precedence_Pow == 19
Precedence_CloneOrNew == 20
Precedence_IncDec == 21
Precedence_CallDim == 22
Precedence_ObjectAccess == 23

AssignmentOps == {"Equals", "PlusEquals", "MinusEquals", "AsteriskEqual",
                  "SlashEquals", "DotEquals", "PercentEquals", "PowEquals",
                  "AmpersandEquals", "PipeEquals", "CaretEquals",
                  "LeftShiftEquals", "RightShiftEquals", "CoalesceEqual"}
EqualityOps == {"DoubleEquals", "BangEquals", "TripleEquals", "BangDoubleEquals",
                "AngledLeftRight"}
ComparisonOps == {"LessThan", "LessThanEquals", "GreaterThan",
                  "GreaterThanEquals", "Spaceship"}

\* Precedence::infix(kind)
Precedence_infix(kind) ==
    CASE kind \in AssignmentOps -> Precedence_Assignment
      [] kind \in {"Question", "QuestionColon"} -> Precedence_Ternary
      [] kind \in {"BooleanOr", "LogicalOr"} -> Precedence_Or
      [] kind \in {"BooleanAnd", "LogicalAnd"} -> Precedence_And
      [] kind = "Pipe" -> Precedence_BitwiseOr
      [] kind \in {"Caret", "LogicalXor"} -> Precedence_BitwiseXor
      [] kind = "Ampersand" -> Precedence_BitwiseAnd
      [] kind \in EqualityOps -> Precedence_Equality
      [] kind \in ComparisonOps -> Precedence_LtGt
      [] kind = "Dot" -> Precedence_Concat
      [] kind \in {"LeftShift", "RightShift"} -> Precedence_BitShift
      [] kind \in {"Plus", "Minus"} -> Precedence_AddSub
      [] kind \in {"Asterisk", "Slash", "Percent"} -> Precedence_MulDivMod
      [] kind = "Instanceof" -> Precedence_Instanceof
      [] kind = "Pow" -> Precedence_Pow

\* Precedence::postfix(kind)
Precedence_postfix(kind) ==
    CASE kind = "Coalesce" -> Precedence_NullCoalesce
      [] kind \in {"Increment", "Decrement"} -> Precedence_IncDec
      [] kind \in {"LeftParen", "LeftBracket"} -> Precedence_CallDim
      [] kind \in {"Arrow", "NullsafeArrow", "DoubleColon"} -> Precedence_ObjectAccess

\* Precedence::prefix(kind)
Precedence_prefix(kind) ==
    CASE kind = "Bang" -> Precedence_Bang
      [] kind = "Print" -> Precedence_Print
      [] kind \in {"Increment", "Decrement"} -> Precedence_IncDec
      [] OTHER -> Precedence_Prefix

\* Precedence::associativity(&self)
associativity(prec) ==
    CASE prec \in {Precedence_Assignment, Precedence_Ternary,
                   Precedence_NullCoalesce, Precedence_Pow} -> Some("Right")
      [] prec \in {Precedence_Or, Precedence_And, Precedence_BitwiseOr,
                   Precedence_BitwiseXor, Precedence_BitwiseAnd,
                   Precedence_Concat, Precedence_BitShift, Precedence_AddSub,
                   Precedence_MulDivMod} -> Some("Left")
      [] prec \in {Precedence_Equality, Precedence_LtGt,
                   Precedence_Instanceof} -> Some("Non")
      [] OTHER -> None

----------------------------------------------------------------------------
(* Operator classes: the free functions at the end of parser/mod.rs *)

CastKinds == {"StringCast", "BinaryCast", "ObjectCast", "BoolCast", "BooleanCast",
              "IntCast", "IntegerCast", "FloatCast", "DoubleCast", "RealCast",
              "UnsetCast", "ArrayCast"}

is_prefix(op) ==
    op \in {"Bang", "Print", "BitwiseNot", "Decrement", "Increment", "Minus",
            "Plus", "At"} \cup CastKinds

is_infix(t) ==
    t \in {"Pow", "RightShiftEquals", "LeftShiftEquals", "CaretEquals",
           "AmpersandEquals", "PipeEquals", "PercentEquals", "PowEquals",
           "LogicalAnd", "LogicalOr", "LogicalXor", "Spaceship", "LeftShift",
           "RightShift", "Ampersand", "Pipe", "Caret", "Percent", "Instanceof",
           "Asterisk", "Slash", "Plus", "Minus", "Dot", "LessThan",
           "GreaterThan", "LessThanEquals", "GreaterThanEquals", "DoubleEquals",
           "TripleEquals", "BangEquals", "BangDoubleEquals", "AngledLeftRight",
           "Question", "QuestionColon", "BooleanAnd", "BooleanOr", "Equals",
           "PlusEquals", "MinusEquals", "DotEquals", "CoalesceEqual",
           "AsteriskEqual", "SlashEquals"}

\* a mutation of is_postfix: `++` and `--` after an operand are not
\* postfix operators
is_postfix_without_inc_dec(t) ==
    t \in {"LeftParen", "LeftBracket", "Arrow", "NullsafeArrow", "DoubleColon",
           "Coalesce"}

is_postfix(t) ==
    t \in {"Increment", "Decrement", "LeftParen", "LeftBracket", "Arrow",
           "NullsafeArrow", "DoubleColon", "Coalesce"}

----------------------------------------------------------------------------
(* AST nodes (parser/ast.rs), as the parser builds them *)

Expression_Variable(name) == <<"Variable", name>>
Expression_LiteralInteger(i) == <<"LiteralInteger", i>>
Expression_LiteralFloat(f) == <<"LiteralFloat", f>>
Expression_LiteralString(value) == <<"LiteralString", value>>
Expression_Identifier(name) == <<"Identifier", name>>
Expression_Bool(value) == <<"Bool", value>>
Expression_Null == <<"Null">>
Expression_Empty == <<"Empty">>
Expression_MagicConst(constant) == <<"MagicConst", constant>>
Expression_Throw(value) == <<"Throw", value>>
Expression_Clone(target) == <<"Clone", target>>
Expression_New(target, args) == <<"New", target, args>>
Expression_Match(condition, default, arms) == <<"Match", condition, default, arms>>
Expression_Array(items) == <<"Array", items>>
Expression_Ternary(condition, then, else) == <<"Ternary", condition, then, else>>
Expression_Coalesce(lhs, rhs) == <<"Coalesce", lhs, rhs>>
Expression_Call(target, args) == <<"Call", target, args>>
Expression_ArrayIndex(array, index) == <<"ArrayIndex", array, index>>
Expression_DynamicVariable(name) == <<"DynamicVariable", name>>
Expression_ConstFetch(target, constant) == <<"ConstFetch", target, constant>>
Expression_StaticMethodCall(target, method, args) ==
    <<"StaticMethodCall", target, method, args>>
Expression_StaticPropertyFetch(target, property) ==
    <<"StaticPropertyFetch", target, property>>
Expression_MethodCall(target, method, args) == <<"MethodCall", target, method, args>>
Expression_NullsafeMethodCall(target, method, args) ==
    <<"NullsafeMethodCall", target, method, args>>
Expression_PropertyFetch(target, property) == <<"PropertyFetch", target, property>>
Expression_NullsafePropertyFetch(target, property) ==
    <<"NullsafePropertyFetch", target, property>>
Expression_Increment(value) == <<"Increment", value>>
Expression_Closure(params, uses, body, static, by_ref) ==
    <<"Closure", params, uses, body, static, by_ref>>
Expression_ArrowFunction(params, expr, by_ref, static) ==
    <<"ArrowFunction", params, expr, by_ref, static>>
Expression_Static == <<"Static">>
Expression_AnonymousClass(body) == <<"AnonymousClass", body>>
Statement_Class(name, flags, body) == <<"Class", name, flags, body>>
Statement_Interface(name, body) == <<"Interface", name, body>>
Statement_Trait(name, body) == <<"Trait", name, body>>
Statement_Enum(name, body) == <<"Enum", name, body>>
Statement_Namespace(name, body) == <<"Namespace", name, body>>
Statement_Use(uses, kind) == <<"Use", uses, kind>>
Statement_GroupUse(pre, kind, uses) == <<"GroupUse", pre, kind, uses>>
Statement_Constant(constants) == <<"Constant", constants>>
Statement_HaltCompiler(content) == <<"HaltCompiler", content>>
Statement_InlineHtml(html) == <<"InlineHtml", html>>
Use(name, alias) == <<"Use", name, alias>>
Constant(name, value) == <<"Constant", name, value>>
Statement_Function(name, params, body, by_ref) ==
    <<"Function", name, params, body, by_ref>>
Statement_Static(static_vars) == <<"Static", static_vars>>
StaticVar(variable, default) == <<"StaticVar", variable, default>>
Expression_Decrement(value) == <<"Decrement", value>>
Expression_Negate(value) == <<"Negate", value>>
Expression_InterpolatedString(parts) == <<"InterpolatedString", parts>>
StringPart_Const(s) == <<"Const", s>>
StringPart_Expr(e) == <<"Expr", e>>

MatchArm(conditions, body) == <<"MatchArm", conditions, body>>
DefaultMatchArm(body) == <<"DefaultMatchArm", body>>
ArrayItem(key, value, unpack) == <<"ArrayItem", key, value, unpack>>

PrefixNode ==
    ("Print" :> "Print") @@
    [ Bang |-> "BooleanNot", Minus |-> "Negate",
      Plus |-> "UnaryPlus", BitwiseNot |-> "BitwiseNot",
      Decrement |-> "PreDecrement", Increment |-> "PreIncrement",
      At |-> "ErrorSuppress" ]

\* a panic of the program: todo!(..) or unreachable!()
Panic(macro) == <<"panic", macro>>

\* fn prefix(op, rhs)
prefix(op, rhs) ==
    IF op \in CastKinds THEN <<"Cast", op, rhs>>
    ELSE IF op \in DOMAIN PrefixNode THEN <<PrefixNode[op], rhs>>
    ELSE Panic("unreachable!")

\* fn infix(lhs, op, rhs)
infix(lhs, op, rhs) == <<"Infix", lhs, op, rhs>>

----------------------------------------------------------------------------
(* Helpers of the expression parser that live outside parser/mod.rs *)

\* the keyword kinds of the model's tokens that may stand for a name
ReservedIdentKinds == {"Array", "Case", "Catch", "Default", "Echo", "Else",
                       "ElseIf", "EndIf", "EndSwitch", "Finally", "If", "Match",
                       "Return", "Switch", "Try", "Instanceof", "LogicalAnd",
                       "LogicalOr", "LogicalXor", "Print"}

\* is_reserved_ident(kind)
is_reserved_ident(kind) == kind \in ReservedIdentKinds

\* Parser::ident_maybe_reserved: an identifier or a reserved word, as a name
ident_maybe_reserved(toks, p) ==
    IF current(toks, p).kind = "Identifier" \/ is_reserved_ident(current(toks, p).kind)
    THEN Ok(to_string(current(toks, p)), next(p))
    ELSE expected_token_err(<<"an identifier">>, toks, p)

----------------------------------------------------------------------------
(* Parser::expression and what it calls *)

\* `let x = e; ..`: the rest of a function, given the value of e
with(e, rest(_)) == rest(e)

\* `let x = e?; ..`: a failed result leaves the function as it is, a
\* successful one goes on to the rest
and_then(r, rest(_)) == IF r.ok THEN rest(r) ELSE r

\* infix_decision without its first test: an operator of lower precedence
\* than the minimum does not end the loop
infix_decision_keeps_lower(rpred, precedence) ==
    IF rpred = precedence /\ associativity(rpred) = Some("Left") THEN "break"
    ELSE IF rpred = precedence /\ associativity(rpred) = Some("Non") THEN "error"
    ELSE "parse"

\* infix_decision without its second test: a left-associative operator of
\* the minimum precedence does not end the loop
infix_decision_no_left_break(rpred, precedence) ==
    IF rpred < precedence THEN "break"
    ELSE IF rpred = precedence /\ associativity(rpred) = Some("Non") THEN "error"
    ELSE "parse"

\* infix_decision with its third test turned into the second: a
\* non-associative operator of the minimum precedence ends the loop
infix_decision_non_as_left(rpred, precedence) ==
    IF rpred < precedence THEN "break"
    ELSE IF rpred = precedence /\ associativity(rpred) \in {Some("Left"), Some("Non")}
    THEN "break"
    ELSE "parse"

\* The decision of the Pratt loop for an infix operator of precedence rpred
\* met while parsing at the minimum precedence `precedence`.
infix_decision(rpred, precedence) ==
    IF rpred < precedence THEN "break"
    ELSE IF rpred = precedence /\ associativity(rpred) = Some("Left") THEN "break"
    ELSE IF rpred = precedence /\ associativity(rpred) = Some("Non") THEN "error"
    ELSE "parse"

\* a mutation of postfix_decision: a postfix operator of the level being
\* parsed ends the operand, as a left-associative infix operator does
postfix_decision_breaks_on_equal(lpred, precedence) ==
    IF lpred <= precedence THEN "break" ELSE "parse"

\* The decision of the Pratt loop for a postfix operator of precedence lpred.
postfix_decision(lpred, precedence) ==
    IF lpred < precedence THEN "break" ELSE "parse"

RECURSIVE expression(_, _, _)
RECURSIVE expression_loop(_, _, _, _)
RECURSIVE postfix(_, _, _, _)
RECURSIVE args_list(_, _)
RECURSIVE args_loop(_, _, _)
RECURSIVE match_loop(_, _, _, _)
RECURSIVE match_conditions(_, _, _)
RECURSIVE array_loop(_, _, _)
RECURSIVE short_array_loop(_, _, _)
RECURSIVE statement(_, _)
RECURSIVE block(_, _, _)
RECURSIVE statements_until(_, _, _, _)
RECURSIVE switch_loop(_, _, _, _)
RECURSIVE colon_else_ifs(_, _, _)
RECURSIVE brace_else_ifs(_, _, _)
RECURSIVE catches_loop(_, _, _)
RECURSIVE echo_loop(_, _, _)
RECURSIVE param_loop(_, _, _)
RECURSIVE interpolated_string_loop(_, _, _)
RECURSIVE top_level_statement(_, _)
RECURSIVE top_level_statements_until(_, _, _, _)
RECURSIVE group_uses_loop(_, _, _)
RECURSIVE uses_loop(_, _, _)
RECURSIVE constants_loop(_, _, _)
RECURSIVE gather_attributes(_, _)
RECURSIVE attribute_loop(_, _)
RECURSIVE static_vars_loop(_, _, _)

\* Parser::args_list: `(` expression, ... `)`
args_loop(toks, p, args) ==
    IF current(toks, p).kind = "RightParen" THEN Ok(args, p)
    ELSE and_then(expression(toks, p, Precedence_Lowest), LAMBDA value:
         IF current(toks, value.p).kind = "Comma"
         THEN args_loop(toks, next(value.p), Append(args, value.v))
         ELSE Ok(Append(args, value.v), value.p))

args_list(toks, p) ==
    and_then(lparen(toks, p), LAMBDA open:
    and_then(args_loop(toks, open.p, <<>>), LAMBDA args:
    and_then(rparen(toks, args.p), LAMBDA close:
    Ok(args.v, close.p))))

\* the inner loop over the conditions of one match arm
match_conditions(toks, p, conditions) ==
    IF current(toks, p).kind = "DoubleArrow" THEN Ok(conditions, p)
    ELSE and_then(expression(toks, p, Precedence_Lowest), LAMBDA c:
         IF current(toks, c.p).kind = "Comma"
         THEN match_conditions(toks, next(c.p), Append(conditions, c.v))
         ELSE Ok(Append(conditions, c.v), c.p))

\* what follows an arm: a comma goes on with the loop, anything else leaves it
match_after_arm(toks, p) ==
    IF current(toks, p).kind = "Comma" THEN [again |-> TRUE, p |-> next(p)]
    ELSE [again |-> FALSE, p |-> p]

\* match_default_is_repeated without its test: a later `default` arm takes
\* the place of the earlier one
match_default_is_never_repeated(default) == FALSE

\* whether a `default` arm met now is one too many
match_default_is_repeated(default) == default # None

\* the loop over the arms of a match expression; the value is <<default, arms>>
match_loop(toks, p0, default, arms) ==
    IF current(toks, p0).kind = "RightBrace" THEN Ok(<<default, arms>>, p0)
    ELSE
    LET p == skip_comments(toks, p0) IN
    IF current(toks, p).kind = "Default"
    THEN IF match_default_is_repeated(default)
         THEN Err(ParseError_MatchExpressionWithMultipleDefaultArms(
                      current(toks, p).span), p)
         ELSE LET p1 == next(p)
                  p2 == IF current(toks, p1).kind = "Comma" THEN next(p1) ELSE p1
              IN
              and_then(expect_token({"DoubleArrow"}, toks, p2, <<"=>">>), LAMBDA arrow:
              and_then(expression(toks, arrow.p, Precedence_Lowest), LAMBDA body:
              LET after == match_after_arm(toks, body.p)
                  d == Some(DefaultMatchArm(body.v))
              IN IF after.again
                 THEN match_loop(toks, after.p, d, arms)
                 ELSE Ok(<<d, arms>>, after.p)))
    ELSE and_then(match_conditions(toks, p, <<>>), LAMBDA conditions:
         IF Len(conditions.v) = 0 THEN Ok(<<default, arms>>, conditions.p)
         ELSE
         and_then(expect_token({"DoubleArrow"}, toks, conditions.p, <<"=>">>), LAMBDA arrow:
         and_then(expression(toks, arrow.p, Precedence_Lowest), LAMBDA body:
         LET after == match_after_arm(toks, body.p)
             a == Append(arms, MatchArm(conditions.v, body.v))
         IN IF after.again
            THEN match_loop(toks, after.p, default, a)
            ELSE Ok(<<default, a>>, after.p))))

\* TokenKind::Match arm of Parser::expression
match_expression(toks, p) ==
    and_then(lparen(toks, next(p)), LAMBDA open:
    and_then(expression(toks, open.p, Precedence_Lowest), LAMBDA condition:
    and_then(rparen(toks, condition.p), LAMBDA close:
    and_then(lbrace(toks, close.p), LAMBDA lb:
    and_then(match_loop(toks, lb.p, None, <<>>), LAMBDA body:
    and_then(rbrace(toks, body.p), LAMBDA rb:
    Ok(Expression_Match(condition.v, body.v[1], body.v[2]), rb.p)))))))

\* one element of an array literal: [`...`] value [`=>` value]
array_item(toks, p) ==
    LET unpack == current(toks, p).kind = "Ellipsis"
        p1 == IF unpack THEN next(p) ELSE p
    IN
    and_then(expression(toks, p1, Precedence_Lowest), LAMBDA value:
    IF current(toks, value.p).kind = "DoubleArrow"
    THEN and_then(expression(toks, next(value.p), Precedence_Lowest), LAMBDA value2:
         Ok(ArrayItem(Some(value.v), value2.v, unpack), value2.p))
    ELSE Ok(ArrayItem(None, value.v, unpack), value.p))

\* the loop over the elements of `array( ... )`
array_loop(toks, p, items) ==
    IF current(toks, p).kind = "RightParen" THEN Ok(items, p)
    ELSE and_then(array_item(toks, p), LAMBDA item:
         IF current(toks, item.p).kind = "Comma"
         THEN array_loop(toks, skip_comments(toks, next(item.p)), Append(items, item.v))
         ELSE Ok(Append(items, item.v), item.p))

\* TokenKind::Array arm of Parser::expression
array_expression(toks, p) ==
    and_then(lparen(toks, next(p)), LAMBDA open:
    and_then(array_loop(toks, open.p, <<>>), LAMBDA items:
    and_then(rparen(toks, items.p), LAMBDA close:
    Ok(Expression_Array(items.v), close.p))))

\* the loop over the elements of `[ ... ]`
short_array_loop(toks, p, items) ==
    IF current(toks, p).kind = "RightBracket" THEN Ok(items, p)
    ELSE IF current(toks, p).kind = "Comma"
    THEN short_array_loop(toks, next(p),
                          Append(items, ArrayItem(None, Expression_Empty, FALSE)))
    ELSE and_then(array_item(toks, p), LAMBDA item:
         LET p1 == skip_comments(toks, item.p) IN
         IF current(toks, p1).kind = "Comma"
         THEN short_array_loop(toks, next(p1), Append(items, item.v))
         ELSE Ok(Append(items, item.v), p1))

\* TokenKind::LeftBracket arm of Parser::expression
short_array_expression(toks, p) ==
    and_then(short_array_loop(toks, skip_comments(toks, next(p)), <<>>), LAMBDA items:
    and_then(rbracket(toks, skip_comments(toks, items.p)), LAMBDA close:
    Ok(Expression_Array(items.v), close.p)))

\* Parser::dynamic_variable: `${ expr }` or `$$name`; the cursor is on `$`
dynamic_variable(toks, p) ==
    LET t == current(toks, next(p)) IN
    CASE t.kind = "LeftBrace" ->
           and_then(expression(toks, next(next(p)), Precedence_Lowest), LAMBDA name:
           and_then(rbrace(toks, name.p), LAMBDA rb:
           Ok(Expression_DynamicVariable(name.v), rb.p)))
      [] t.kind = "Variable" ->
           Ok(Expression_DynamicVariable(Expression_Variable(t.val)),
              next(next(p)))
      [] OTHER -> expected_token_err(<<"{", "$">>, toks, next(p))

\* the attributes of one group, up to `]`: expressions separated by commas
attribute_loop(toks, p) ==
    IF current(toks, p).kind = "RightBracket" THEN Ok(TRUE, p)
    ELSE and_then(expression(toks, p, Precedence_Lowest), LAMBDA attribute:
         IF current(toks, attribute.p).kind = "Comma"
         THEN attribute_loop(toks, next(attribute.p))
         ELSE Ok(TRUE, attribute.p))

\* Parser::gather_attributes: steps over the attribute groups `#[ .. ]` at
\* the cursor and tells whether there was one
gather_attributes(toks, p) ==
    IF current(toks, p).kind # "Attribute" THEN Ok(FALSE, p)
    ELSE and_then(attribute_loop(toks, next(p)), LAMBDA group:
         and_then(rbracket(toks, group.p), LAMBDA close:
         and_then(gather_attributes(toks, close.p), LAMBDA more:
         Ok(TRUE, more.p))))

\* Parser::ident: the name an Identifier token holds
ident(toks, p) ==
    IF current(toks, p).kind = "Identifier"
    THEN Ok(current(toks, p).val, next(p))
    ELSE expected_token_err(<<"an identifier">>, toks, p)

\* Parser::var: the name a Variable token holds
var(toks, p) ==
    IF current(toks, p).kind = "Variable"
    THEN Ok(current(toks, p).val, next(p))
    ELSE expected_token_err(<<"a variable">>, toks, p)

\* the parameters up to `)`: variables separated by commas
param_loop(toks, p, params) ==
    IF current(toks, p).kind = "RightParen" THEN Ok(params, p)
    ELSE and_then(var(toks, p), LAMBDA name:
         IF current(toks, name.p).kind = "Comma"
         THEN param_loop(toks, next(name.p), Append(params, name.v))
         ELSE Ok(Append(params, name.v), name.p))

\* `( parameters )`
param_list(toks, p) ==
    and_then(lparen(toks, p), LAMBDA open:
    and_then(param_loop(toks, open.p, <<>>), LAMBDA params:
    and_then(rparen(toks, params.p), LAMBDA close:
    Ok(params.v, close.p))))

\* `{ statements }`, the body of a function
function_body(toks, p) ==
    and_then(lbrace(toks, p), LAMBDA open:
    and_then(block(toks, open.p, "RightBrace"), LAMBDA body:
    and_then(rbrace(toks, body.p), LAMBDA close:
    Ok(body.v, close.p))))

\* an optional `&` at the cursor: whether it is there, and the cursor after it
by_ref_at(toks, p) ==
    IF current(toks, p).kind = "Ampersand" THEN Ok(TRUE, next(p)) ELSE Ok(FALSE, p)

\* the name of a declared function: an identifier, or the keyword `null`
function_name(toks, p) ==
    IF current(toks, p).kind = "Null" THEN Ok("null", next(p)) ELSE ident(toks, p)

\* Parser::function: `function [&] name ( parameters ) { body }`; the cursor
\* is on `function`
function(toks, p) ==
    and_then(by_ref_at(toks, next(p)), LAMBDA by_ref:
    and_then(function_name(toks, by_ref.p), LAMBDA name:
    and_then(param_list(toks, name.p), LAMBDA params:
    and_then(function_body(toks, params.p), LAMBDA body:
    Ok(Statement_Function(name.v, params.v, body.v, by_ref.v), body.p)))))

\* an optional `static` at the cursor
static_at(toks, p) ==
    IF current(toks, p).kind = "Static" THEN Ok(TRUE, next(p)) ELSE Ok(FALSE, p)

\* an optional `use ( variables )` after the parameters of a closure
closure_uses(toks, p) ==
    IF current(toks, p).kind = "Use" THEN param_list(toks, next(p)) ELSE Ok(<<>>, p)

\* Parser::anonymous_function:
\* `[static] function [&] ( parameters ) [use ( variables )] { body }`
anonymous_function(toks, p) ==
    and_then(static_at(toks, p), LAMBDA static:
    and_then(expect_token({"Function"}, toks, static.p, <<"function">>), LAMBDA kw:
    and_then(by_ref_at(toks, kw.p), LAMBDA by_ref:
    and_then(param_list(toks, by_ref.p), LAMBDA params:
    and_then(closure_uses(toks, params.p), LAMBDA uses:
    and_then(function_body(toks, uses.p), LAMBDA body:
    Ok(Expression_Closure(params.v, uses.v, body.v, static.v, by_ref.v),
       body.p)))))))

\* Parser::arrow_function: `[static] fn [&] ( parameters ) => expression`
arrow_function(toks, p) ==
    and_then(static_at(toks, p), LAMBDA static:
    and_then(expect_token({"Fn"}, toks, static.p, <<"fn">>), LAMBDA kw:
    and_then(by_ref_at(toks, kw.p), LAMBDA by_ref:
    and_then(param_list(toks, by_ref.p), LAMBDA params:
    and_then(expect_token({"DoubleArrow"}, toks, params.p, <<"=>">>), LAMBDA arrow:
    and_then(expression(toks, arrow.p, Precedence_Lowest), LAMBDA expr:
    Ok(Expression_ArrowFunction(params.v, expr.v, by_ref.v, static.v),
       expr.p)))))))

\* `{ }`, the body of a class-like definition; members are outside the model
class_body(toks, p) ==
    and_then(lbrace(toks, p), LAMBDA open:
    and_then(rbrace(toks, open.p), LAMBDA close:
    Ok(<<>>, close.p)))

ClassFlagKinds == {"Abstract", "Final", "Readonly"}

\* the modifier before `class`, if there is one
class_flags(toks, p) ==
    IF current(toks, p).kind \in ClassFlagKinds
    THEN Ok(<<current(toks, p).kind>>, next(p))
    ELSE Ok(<<>>, p)

\* Parser::class_definition: `[abstract | final | readonly] class Name { }`
class_definition(toks, p) ==
    and_then(class_flags(toks, p), LAMBDA flags:
    and_then(expect_token({"Class"}, toks, flags.p, <<"class">>), LAMBDA kw:
    and_then(ident(toks, kw.p), LAMBDA name:
    and_then(class_body(toks, name.p), LAMBDA body:
    Ok(Statement_Class(name.v, flags.v, body.v), body.p)))))

\* Parser::interface_definition, trait_definition, enum_definition:
\* `keyword Name { }`
named_definition(toks, p) ==
    and_then(ident(toks, next(p)), LAMBDA name:
    and_then(class_body(toks, name.p), LAMBDA body:
    Ok(name.v, body.p)))

interface_definition(toks, p) ==
    and_then(named_definition(toks, p), LAMBDA d:
    Ok(Statement_Interface(d.v, <<>>), d.p))

trait_definition(toks, p) ==
    and_then(named_definition(toks, p), LAMBDA d:
    Ok(Statement_Trait(d.v, <<>>), d.p))

enum_definition(toks, p) ==
    and_then(named_definition(toks, p), LAMBDA d:
    Ok(Statement_Enum(d.v, <<>>), d.p))

\* Parser::anonymous_class_definition:
\* `new [attributes] class [( arguments )] { }`; the cursor is on `new`
anonymous_class_definition(toks, p) ==
    and_then(gather_attributes(toks, next(p)), LAMBDA attrs:
    and_then(expect_token({"Class"}, toks, attrs.p, <<"class">>), LAMBDA kw:
    and_then(IF current(toks, kw.p).kind = "LeftParen"
             THEN args_list(toks, kw.p) ELSE Ok(<<>>, kw.p), LAMBDA args:
    and_then(class_body(toks, args.p), LAMBDA body:
    Ok(Expression_New(Expression_AnonymousClass(body.v), args.v), body.p)))))

\* TokenKind::New arm of Parser::expression
new_expression(toks, p) ==
    and_then(expression(toks, next(p), Precedence_CloneOrNew), LAMBDA target:
    IF current(toks, target.p).kind = "LeftParen"
    THEN and_then(args_list(toks, target.p), LAMBDA args:
         Ok(Expression_New(target.v, args.v), args.p))
    ELSE Ok(Expression_New(target.v, <<>>), target.p))

\* a mutation of string_part_is_kept: empty parts are kept too
string_part_is_always_kept(s) == TRUE

\* `s.len() > 0`: a StringPart token without bytes gives no part
string_part_is_kept(s) == s # ""

\* TokenKind::StringPart arm of interpolated_string_part
string_part_const(toks, p) ==
    Ok(IF string_part_is_kept(current(toks, p).val)
       THEN Some(StringPart_Const(current(toks, p).val))
       ELSE None,
       next(p))

\* TokenKind::DollarLeftBrace arm: "${var}", "${var[e]}", "${expr}"
string_part_dollar_brace(toks, p0) ==
    LET p == next(p0)
        name == Expression_Variable(current(toks, p).val)
    IN
    CASE current(toks, p).kind = "Identifier" /\ peek(toks, p).kind = "RightBrace" ->
           Ok(Some(StringPart_Expr(name)), next(next(p)))
      [] current(toks, p).kind = "Identifier" /\ peek(toks, p).kind = "LeftBracket" ->
           and_then(expression(toks, next(next(p)), Precedence_Lowest), LAMBDA e:
           and_then(expect_token({"RightBracket"}, toks, e.p, <<"]">>), LAMBDA rb:
           and_then(expect_token({"RightBrace"}, toks, rb.p, <<"}">>), LAMBDA close:
           Ok(Some(StringPart_Expr(Expression_ArrayIndex(name, Some(e.v)))),
              close.p))))
      [] OTHER ->
           and_then(expression(toks, p, Precedence_Lowest), LAMBDA e:
           and_then(expect_token({"RightBrace"}, toks, e.p, <<"}">>), LAMBDA close:
           Ok(Some(StringPart_Expr(Expression_DynamicVariable(e.v))), close.p)))

\* TokenKind::LeftBrace arm: "{$expr}"
string_part_brace(toks, p) ==
    and_then(expression(toks, next(p), Precedence_Lowest), LAMBDA e:
    and_then(expect_token({"RightBrace"}, toks, e.p, <<"}">>), LAMBDA close:
    Ok(Some(StringPart_Expr(e.v)), close.p)))

\* the index of "$expr[..]": an integer, a negated integer, a name or a
\* variable; the cursor is after `[`
string_part_index(toks, p) ==
    LET t == current(toks, p) IN
    CASE t.kind = "LiteralInteger" -> Ok(Expression_LiteralInteger(t.val), next(p))
      [] t.kind = "Minus" ->
           IF current(toks, next(p)).kind = "LiteralInteger"
           THEN Ok(Expression_Negate(
                      Expression_LiteralInteger(current(toks, next(p)).val)),
                   next(next(p)))
           ELSE expected_token_err(<<"an integer">>, toks, next(p))
      [] t.kind = "Identifier" -> Ok(Expression_LiteralString(t.val), next(p))
      [] t.kind = "Variable" -> Ok(Expression_Variable(t.val), next(p))
      [] OTHER ->
           expected_token_err(<<"-", "an integer", "an identifier", "a variable">>,
                              toks, p)

\* TokenKind::Variable arm: "$expr", "$expr[0]", "$expr[name]", "$expr->a"
string_part_variable(toks, p0) ==
    LET name == Expression_Variable(current(toks, p0).val)
        p == next(p0)
    IN
    CASE current(toks, p).kind = "LeftBracket" ->
           and_then(string_part_index(toks, next(p)), LAMBDA index:
           and_then(expect_token({"RightBracket"}, toks, index.p, <<"]">>), LAMBDA rb:
           Ok(Some(StringPart_Expr(Expression_ArrayIndex(name, Some(index.v)))),
              rb.p)))
      [] current(toks, p).kind = "Arrow" ->
           and_then(ident_maybe_reserved(toks, next(p)), LAMBDA property:
           Ok(Some(StringPart_Expr(Expression_PropertyFetch(
                       name, Expression_Identifier(property.v)))),
              property.p))
      [] current(toks, p).kind = "NullsafeArrow" ->
           and_then(ident_maybe_reserved(toks, next(p)), LAMBDA property:
           Ok(Some(StringPart_Expr(Expression_NullsafePropertyFetch(
                       name, Expression_Identifier(property.v)))),
              property.p))
      [] OTHER -> Ok(Some(StringPart_Expr(name)), p)

\* Parser::interpolated_string_part
interpolated_string_part(toks, p) ==
    LET kind == current(toks, p).kind IN
    CASE kind = "StringPart" -> string_part_const(toks, p)
      [] kind = "DollarLeftBrace" -> string_part_dollar_brace(toks, p)
      [] kind = "LeftBrace" -> string_part_brace(toks, p)
      [] kind = "Variable" -> string_part_variable(toks, p)
      [] OTHER ->
           expected_token_err(<<"${", "{$", "\"", "a variable">>, toks, p)

\* `while current is not `"` { if let Some(part) = .. { parts.push(part) } }`
interpolated_string_loop(toks, p, parts) ==
    IF current(toks, p).kind = "DoubleQuote" THEN Ok(parts, p)
    ELSE and_then(interpolated_string_part(toks, p), LAMBDA part:
         interpolated_string_loop(
             toks, part.p,
             IF part.v = None THEN parts ELSE Append(parts, part.v[2])))

\* Parser::interpolated_string
interpolated_string(toks, p) ==
    and_then(interpolated_string_loop(toks, p, <<>>), LAMBDA parts:
    Ok(Expression_InterpolatedString(parts.v), next(parts.p)))

\* a mutation of parenthesised: a node records the parentheses
parenthesised_with_node(toks, p) ==
    and_then(expression(toks, next(p), Precedence_Lowest), LAMBDA e:
    and_then(rparen(toks, e.p), LAMBDA close:
    Ok(<<"Parenthesized", e.v>>, close.p)))

\* TokenKind::LeftParen arm of Parser::expression: the value is the
\* expression between the parentheses
parenthesised(toks, p) ==
    and_then(expression(toks, next(p), Precedence_Lowest), LAMBDA e:
    and_then(rparen(toks, e.p), LAMBDA close:
    Ok(e.v, close.p)))

\* a mutation of prefix_expression: the operand is parsed at the lowest
\* precedence
prefix_expression_at_lowest(toks, p, op) ==
    and_then(expression(toks, next(p), Precedence_Lowest), LAMBDA rhs:
    Ok(prefix(op, rhs.v), rhs.p))

\* the is_prefix arm of Parser::expression: the operand of the prefix
\* operator `op` under the cursor is parsed at Precedence::prefix(op)
prefix_expression(toks, p, op) ==
    and_then(expression(toks, next(p), Precedence_prefix(op)), LAMBDA rhs:
    Ok(prefix(op, rhs.v), rhs.p))

\* the first match of Parser::expression when attributes were gathered
expression_nud_after_attributes(toks, p) ==
    LET t == current(toks, p) IN
    CASE t.kind = "Static" /\ peek(toks, p).kind = "Function" ->
           anonymous_function(toks, p)
      [] t.kind = "Static" /\ peek(toks, p).kind = "Fn" -> arrow_function(toks, p)
      [] t.kind = "Function" -> anonymous_function(toks, p)
      [] t.kind = "Fn" -> arrow_function(toks, p)
      [] OTHER -> Err(ParseError_ExpectedItemDefinitionAfterAttributes(t.span), p)

\* the first match of Parser::expression: the operand that starts the
\* expression.  The arms are those of the source, in its order, for the
\* token kinds of the model.
expression_nud(toks, p) ==
    LET t == current(toks, p)
        kind == t.kind
    IN
    CASE kind = "Static" /\ peek(toks, p).kind = "Function" ->
           anonymous_function(toks, p)
      [] kind = "Static" /\ peek(toks, p).kind = "Fn" -> arrow_function(toks, p)
      [] kind = "Function" -> anonymous_function(toks, p)
      [] kind = "Fn" -> arrow_function(toks, p)
      [] kind = "New" /\ peek(toks, p).kind \in {"Class", "Attribute"} ->
           anonymous_class_definition(toks, p)
      [] kind = "Throw" ->
           and_then(expression(toks, next(p), Precedence_Lowest), LAMBDA value:
           Ok(Expression_Throw(value.v), value.p))
      [] kind = "Clone" ->
           and_then(expression(toks, next(p), Precedence_CloneOrNew), LAMBDA target:
           Ok(Expression_Clone(target.v), target.p))
      [] kind = "Variable" -> Ok(Expression_Variable(t.val), next(p))
      [] kind = "LiteralInteger" -> Ok(Expression_LiteralInteger(t.val), next(p))
      [] kind = "LiteralFloat" -> Ok(Expression_LiteralFloat(t.val), next(p))
      [] kind \in {"Identifier", "QualifiedIdentifier", "FullyQualifiedIdentifier"} ->
           Ok(Expression_Identifier(t.val), next(p))
      [] kind = "Static" /\ peek(toks, p).kind = "DoubleColon" ->
           Ok(Expression_Static, next(p))
      [] kind = "LiteralString" -> Ok(Expression_LiteralString(t.val), next(p))
      [] kind = "StringPart" -> interpolated_string(toks, p)
      [] kind = "True" -> Ok(Expression_Bool(TRUE), next(p))
      [] kind = "False" -> Ok(Expression_Bool(FALSE), next(p))
      [] kind = "Null" -> Ok(Expression_Null, next(p))
      [] kind = "LeftParen" -> parenthesised(toks, p)
      [] kind = "Match" -> match_expression(toks, p)
      [] kind = "Array" -> array_expression(toks, p)
      [] kind = "LeftBracket" -> short_array_expression(toks, p)
      [] kind = "New" -> new_expression(toks, p)
      [] kind = "DirConstant" -> Ok(Expression_MagicConst("Dir"), next(p))
      [] is_prefix(kind) -> prefix_expression(toks, p, kind)
      [] kind = "Dollar" -> dynamic_variable(toks, p)
      [] OTHER -> Err(ParseError_UnexpectedToken(to_string(t), t.span), p)

\* TokenKind::Question arm of the infix match: `left ? then : otherwise`;
\* the cursor is after `?`
ternary(toks, p, left, rpred) ==
    and_then(expression(toks, p, Precedence_Lowest), LAMBDA then:
    and_then(colon(toks, then.p), LAMBDA c:
    and_then(expression(toks, c.p, rpred), LAMBDA otherwise:
    Ok(Expression_Ternary(left, Some(then.v), otherwise.v), otherwise.p))))

\* a mutation of short_ternary: the condition is written as `then`
short_ternary_with_then(toks, p, left) ==
    and_then(expression(toks, p, Precedence_Lowest), LAMBDA else:
    Ok(Expression_Ternary(left, Some(left), else.v), else.p))

\* TokenKind::QuestionColon arm of the infix match: `left ?: else`; the
\* cursor is after `?:`
short_ternary(toks, p, left) ==
    and_then(expression(toks, p, Precedence_Lowest), LAMBDA else:
    Ok(Expression_Ternary(left, None, else.v), else.p))

\* what the Pratt loop does with the infix operator `kind` once it has
\* stepped over it (cursor p): the ternary forms and the plain infix
infix_led(toks, p, left, kind, rpred) ==
    CASE kind = "Question" -> ternary(toks, p, left, rpred)
      [] kind = "QuestionColon" -> short_ternary(toks, p, left)
      [] OTHER ->
           and_then(expression(toks, p, rpred), LAMBDA rhs:
           Ok(infix(left, kind, rhs.v), rhs.p))

\* the loop of Parser::expression: postfix and infix operators after `left`
expression_loop(toks, p0, left, precedence) ==
    LET p == skip_comments(toks, p0)
        t == current(toks, p)
        kind == t.kind
    IN
    IF kind \in {"SemiColon", "Eof"} THEN Ok(left, skip_comments(toks, p))
    ELSE IF is_postfix(kind)
    THEN IF postfix_decision(Precedence_postfix(kind), precedence) = "break"
         THEN Ok(left, skip_comments(toks, p))
         ELSE and_then(postfix(toks, p, left, kind), LAMBDA r:
              expression_loop(toks, r.p, r.v, precedence))
    ELSE IF is_infix(kind)
    THEN with(infix_decision(Precedence_infix(kind), precedence), LAMBDA d:
         IF d = "break" THEN Ok(left, skip_comments(toks, p))
         ELSE IF d = "error"
         THEN Err(ParseError_UnexpectedToken(to_string(t), t.span), p)
         ELSE and_then(infix_led(toks, next(p), left, kind, Precedence_infix(kind)),
                       LAMBDA r:
              expression_loop(toks, r.p, r.v, precedence)))
    ELSE Ok(left, skip_comments(toks, p))

\* Parser::expression(state, precedence)
expression(toks, p, precedence) ==
    IF is_eof(toks, p) THEN Err(ParseError_UnexpectedEndOfFile, p)
    ELSE and_then(gather_attributes(toks, p), LAMBDA attrs:
         and_then(IF attrs.v THEN expression_nud_after_attributes(toks, attrs.p)
                  ELSE expression_nud(toks, attrs.p), LAMBDA left:
         IF current(toks, left.p).kind = "SemiColon" THEN left
         ELSE expression_loop(toks, skip_comments(toks, left.p), left.v, precedence)))

\* a mutation of brace_member_must_be_method_call: `{ expr }` is a member
\* like any other
brace_member_may_be_property == FALSE

\* `must_be_method_call = true` in the `{` arm of the member after `::`
brace_member_must_be_method_call == TRUE

\* the member named after `::`, and whether it can only be a method call.
\* The member is a dynamic variable, a variable, `{ expr }`, an identifier,
\* `class` or a reserved word.
double_colon_property(toks, p) ==
    LET t == current(toks, p)
        member(v, q, must) ==
            [ok |-> TRUE, v |-> v, p |-> q, must_be_method_call |-> must]
    IN
    CASE t.kind = "Dollar" ->
           and_then(dynamic_variable(toks, p), LAMBDA dv:
           member(dv.v, dv.p, FALSE))
      [] t.kind = "Variable" -> member(Expression_Variable(t.val), next(p), FALSE)
      [] t.kind = "LeftBrace" ->
           and_then(expression(toks, next(p), Precedence_Lowest), LAMBDA name:
           and_then(rbrace(toks, name.p), LAMBDA rb:
           member(Expression_DynamicVariable(name.v), rb.p,
                  brace_member_must_be_method_call)))
      [] t.kind = "Identifier" -> member(Expression_Identifier(t.val), next(p), FALSE)
      [] t.kind = "Class" -> member(Expression_Identifier("class"), next(p), FALSE)
      [] is_reserved_ident(t.kind) ->
           and_then(ident_maybe_reserved(toks, p), LAMBDA name:
           member(Expression_Identifier(name.v), name.p, FALSE))
      [] OTHER -> expected_token_err(<<"{", "$", "an identifier">>, toks, p)

\* TokenKind::DoubleColon arm of Parser::postfix
postfix_double_colon(toks, p, lhs) ==
    and_then(double_colon_property(toks, p), LAMBDA property:
    IF property.v[1] = "Identifier"
       /\ current(toks, property.p).kind # "LeftParen"
    THEN Ok(Expression_ConstFetch(lhs, property.v[2]), property.p)
    ELSE IF current(toks, property.p).kind = "LeftParen"
            \/ property.must_be_method_call
    THEN and_then(args_list(toks, property.p), LAMBDA args:
         Ok(Expression_StaticMethodCall(lhs, property.v, args.v), args.p))
    ELSE Ok(Expression_StaticPropertyFetch(lhs, property.v), property.p))

\* the member named after `->` or `?->`
arrow_property(toks, p) ==
    LET t == current(toks, p) IN
    CASE t.kind = "LeftBrace" ->
           and_then(expression(toks, next(p), Precedence_Lowest), LAMBDA expr:
           and_then(rbrace(toks, expr.p), LAMBDA rb:
           Ok(expr.v, rb.p)))
      [] t.kind = "Variable" -> Ok(Expression_Variable(t.val), next(p))
      [] OTHER ->
           and_then(ident_maybe_reserved(toks, p), LAMBDA name:
           Ok(Expression_Identifier(name.v), name.p))

\* TokenKind::Arrow | TokenKind::NullsafeArrow arm of Parser::postfix
postfix_arrow(toks, p, lhs, op) ==
    and_then(arrow_property(toks, p), LAMBDA property:
    IF current(toks, property.p).kind = "LeftParen"
    THEN and_then(args_list(toks, property.p), LAMBDA args:
         IF op = "NullsafeArrow"
         THEN Ok(Expression_NullsafeMethodCall(lhs, property.v, args.v), args.p)
         ELSE Ok(Expression_MethodCall(lhs, property.v, args.v), args.p))
    ELSE IF op = "NullsafeArrow"
    THEN Ok(Expression_NullsafePropertyFetch(lhs, property.v), property.p)
    ELSE Ok(Expression_PropertyFetch(lhs, property.v), property.p))

\* a mutation of postfix: `?->` has no arm of its own
postfix_without_nullsafe_arrow(toks, p, lhs, op) ==
    CASE op = "Coalesce" ->
           and_then(expression(toks, next(p), Precedence_NullCoalesce), LAMBDA rhs:
           Ok(Expression_Coalesce(lhs, rhs.v), rhs.p))
      [] op = "LeftParen" ->
           and_then(args_list(toks, p), LAMBDA args:
           Ok(Expression_Call(lhs, args.v), args.p))
      [] op = "LeftBracket" ->
           IF current(toks, next(p)).kind = "RightBracket"
           THEN Ok(Expression_ArrayIndex(lhs, None), next(next(p)))
           ELSE and_then(expression(toks, next(p), Precedence_Lowest), LAMBDA index:
                and_then(expect_token({"RightBracket"}, toks, index.p, <<"]">>),
                         LAMBDA close:
                Ok(Expression_ArrayIndex(lhs, Some(index.v)), close.p)))
      [] op = "DoubleColon" -> postfix_double_colon(toks, next(p), lhs)
      [] op = "Arrow" -> postfix_arrow(toks, next(p), lhs, op)
      [] op = "Increment" -> Ok(Expression_Increment(lhs), next(p))
      [] op = "Decrement" -> Ok(Expression_Decrement(lhs), next(p))
      [] OTHER -> Err(Panic("todo!"), p)

\* Parser::postfix(state, lhs, op); the cursor is on the operator
postfix(toks, p, lhs, op) ==
    CASE op = "Coalesce" ->
           and_then(expression(toks, next(p), Precedence_NullCoalesce), LAMBDA rhs:
           Ok(Expression_Coalesce(lhs, rhs.v), rhs.p))
      [] op = "LeftParen" ->
           and_then(args_list(toks, p), LAMBDA args:
           Ok(Expression_Call(lhs, args.v), args.p))
      [] op = "LeftBracket" ->
           IF current(toks, next(p)).kind = "RightBracket"
           THEN Ok(Expression_ArrayIndex(lhs, None), next(next(p)))
           ELSE and_then(expression(toks, next(p), Precedence_Lowest), LAMBDA index:
                and_then(expect_token({"RightBracket"}, toks, index.p, <<"]">>),
                         LAMBDA close:
                Ok(Expression_ArrayIndex(lhs, Some(index.v)), close.p)))
      [] op = "DoubleColon" -> postfix_double_colon(toks, next(p), lhs)
      [] op \in {"Arrow", "NullsafeArrow"} -> postfix_arrow(toks, next(p), lhs, op)
      [] op = "Increment" -> Ok(Expression_Increment(lhs), next(p))
      [] op = "Decrement" -> Ok(Expression_Decrement(lhs), next(p))
      [] OTHER -> Err(Panic("todo!"), p)

----------------------------------------------------------------------------
(* Statements *)

Statement_Expression(expr) == <<"Expression", expr>>
Statement_Noop == <<"Noop">>
Statement_Block(body) == <<"Block", body>>
Statement_Echo(values) == <<"Echo", values>>
Statement_Return(value) == <<"Return", value>>
Statement_If(condition, then, else_ifs, else) ==
    <<"If", condition, then, else_ifs, else>>
ElseIf(condition, body) == <<"ElseIf", condition, body>>
Statement_Switch(condition, cases) == <<"Switch", condition, cases>>
Case(condition, body) == <<"Case", condition, body>>
Statement_Try(body, catches, finally) == <<"Try", body, catches, finally>>
Catch(types, variable, body) == <<"Catch", types, variable, body>>

\* a result that leaves Parser::statement by `return Ok(..)`, ahead of the
\* skip_comments that ends the function
Returned(v, p) == [ok |-> TRUE, v |-> v, p |-> p, returned |-> TRUE]

\* `while current is none of stops { body.push(self.statement(state)?) }`
statements_until(toks, p, stops, body) ==
    IF current(toks, p).kind \in stops THEN Ok(body, p)
    ELSE and_then(statement(toks, p), LAMBDA s:
         statements_until(toks, s.p, stops, Append(body, s.v)))

\* Parser::block(state, until): the statements up to the terminator `until`
block(toks, p, until) ==
    statements_until(toks, p, {until}, <<>>)

\* `( expression )`, the head of if, elseif and switch
paren_expression(toks, p) ==
    and_then(lparen(toks, p), LAMBDA open:
    and_then(expression(toks, open.p, Precedence_Lowest), LAMBDA e:
    and_then(rparen(toks, e.p), LAMBDA close:
    Ok(e.v, close.p))))

\* `{` was stepped over: the block up to `}` and the `}`
braced_block(toks, p) ==
    and_then(block(toks, p, "RightBrace"), LAMBDA b:
    and_then(rbrace(toks, b.p), LAMBDA rb:
    Ok(b.v, rb.p)))

\* the kinds that end the body of a `case` or `default` arm
CaseBodyStops == {"Case", "Default", "RightBrace"}

\* the loop over the arms of a switch statement
switch_loop(toks, p, end_token, cases) ==
    LET kind == current(toks, p).kind
        separator(q) == expect_token({"Colon", "SemiColon"}, toks, q, <<":", ";">>)
    IN
    IF kind = end_token THEN Ok(cases, p)
    ELSE IF kind = "Case"
    THEN and_then(expression(toks, next(p), Precedence_Lowest), LAMBDA condition:
         and_then(separator(condition.p), LAMBDA sep:
         and_then(statements_until(toks, sep.p, CaseBodyStops, <<>>), LAMBDA body:
         switch_loop(toks, body.p, end_token,
                     Append(cases, Case(Some(condition.v), body.v))))))
    ELSE IF kind = "Default"
    THEN and_then(separator(next(p)), LAMBDA sep:
         and_then(statements_until(toks, sep.p, CaseBodyStops, <<>>), LAMBDA body:
         switch_loop(toks, body.p, end_token, Append(cases, Case(None, body.v)))))
    ELSE expected_token_err(<<"case", "default">>, toks, p)

\* TokenKind::Switch arm of Parser::statement
switch_statement(toks, p) ==
    and_then(paren_expression(toks, next(p)), LAMBDA condition:
    LET is_colon == current(toks, condition.p).kind = "Colon"
        end_token == IF is_colon THEN "EndSwitch" ELSE "RightBrace"
    IN
    and_then(IF is_colon THEN colon(toks, condition.p) ELSE lbrace(toks, condition.p),
             LAMBDA open:
    and_then(switch_loop(toks, open.p, end_token, <<>>), LAMBDA cases:
    IF end_token = "EndSwitch"
    THEN and_then(expect_token({"EndSwitch"}, toks, cases.p, <<"endswitch">>), LAMBDA e:
         and_then(semi(toks, e.p), LAMBDA sc:
         Ok(Statement_Switch(condition.v, cases.v), sc.p)))
    ELSE and_then(rbrace(toks, cases.p), LAMBDA rb:
         Ok(Statement_Switch(condition.v, cases.v), rb.p)))))

\* the kinds that end a body of the colon form of `if`
ColonBodyStops == {"ElseIf", "Else", "EndIf"}

\* the `elseif (..): ..` parts of the colon form
colon_else_ifs(toks, p, else_ifs) ==
    IF current(toks, p).kind # "ElseIf" THEN Ok(else_ifs, p)
    ELSE and_then(paren_expression(toks, next(p)), LAMBDA condition:
         and_then(colon(toks, condition.p), LAMBDA c:
         and_then(statements_until(toks, c.p, ColonBodyStops, <<>>), LAMBDA body:
         colon_else_ifs(toks, body.p, Append(else_ifs, ElseIf(condition.v, body.v))))))

\* the `else: ..` part of the colon form, if there is one
colon_else(toks, p) ==
    IF current(toks, p).kind = "Else"
    THEN and_then(colon(toks, next(p)), LAMBDA c:
         and_then(statements_until(toks, c.p, {"EndIf"}, <<>>), LAMBDA body:
         Ok(Some(body.v), body.p)))
    ELSE Ok(None, p)

\* the colon form, from the `:` after the condition
if_colon_form(toks, p, condition) ==
    and_then(statements_until(toks, next(p), ColonBodyStops, <<>>), LAMBDA then:
    and_then(colon_else_ifs(toks, then.p, <<>>), LAMBDA else_ifs:
    and_then(colon_else(toks, else_ifs.p), LAMBDA else:
    and_then(expect_token({"EndIf"}, toks, else.p, <<"endif">>), LAMBDA e:
    and_then(semi(toks, e.p), LAMBDA sc:
    Ok(Statement_If(condition, then.v, else_ifs.v, else.v), sc.p))))))

\* brace_else_ifs that also takes an `elseif (..):` part, with its body up
\* to `endif;`
brace_else_ifs_of_either_form(toks, p, else_ifs) ==
    IF current(toks, p).kind # "ElseIf" THEN Ok(else_ifs, p)
    ELSE and_then(paren_expression(toks, next(p)), LAMBDA condition:
         IF current(toks, condition.p).kind = "Colon"
         THEN and_then(statements_until(toks, next(condition.p), ColonBodyStops, <<>>),
                       LAMBDA body:
              and_then(expect_token({"EndIf"}, toks, body.p, <<"endif">>), LAMBDA e:
              and_then(semi(toks, e.p), LAMBDA sc:
              Ok(Append(else_ifs, ElseIf(condition.v, body.v)), sc.p))))
         ELSE and_then(lbrace(toks, condition.p), LAMBDA lb:
              and_then(braced_block(toks, lb.p), LAMBDA body:
              brace_else_ifs(toks, body.p,
                             Append(else_ifs, ElseIf(condition.v, body.v))))))

\* brace_else_ifs whose loop is never entered: an `elseif` is left to the
\* statement that follows
brace_else_ifs_never_entered(toks, p, else_ifs) == Ok(else_ifs, p)

\* the `elseif (..) { .. }` parts of the brace form
brace_else_ifs(toks, p, else_ifs) ==
    IF current(toks, p).kind # "ElseIf" THEN Ok(else_ifs, p)
    ELSE and_then(paren_expression(toks, next(p)), LAMBDA condition:
         and_then(lbrace(toks, condition.p), LAMBDA lb:
         and_then(braced_block(toks, lb.p), LAMBDA body:
         brace_else_ifs(toks, body.p, Append(else_ifs, ElseIf(condition.v, body.v))))))

\* the first body of the brace form: `{ .. }`, or the statements up to `;`
if_then_block(toks, p) ==
    IF current(toks, p).kind = "LeftBrace"
    THEN braced_block(toks, next(p))
    ELSE block(toks, p, "SemiColon")

\* the brace form (and the form with one unbraced body), from the token
\* after the condition
if_brace_form(toks, p, condition) ==
    and_then(if_then_block(toks, p), LAMBDA then:
    and_then(brace_else_ifs(toks, then.p, <<>>), LAMBDA else_ifs:
    IF current(toks, else_ifs.p).kind # "Else"
    THEN Returned(Statement_If(condition, then.v, else_ifs.v, None), else_ifs.p)
    ELSE
    and_then(expect_token({"Else"}, toks, else_ifs.p, <<"else">>), LAMBDA e:
    and_then(lbrace(toks, e.p), LAMBDA lb:
    and_then(braced_block(toks, lb.p), LAMBDA else:
    Ok(Statement_If(condition, then.v, else_ifs.v, Some(else.v)), else.p))))))

\* TokenKind::If arm of Parser::statement
if_statement(toks, p) ==
    and_then(paren_expression(toks, next(p)), LAMBDA condition:
    IF current(toks, condition.p).kind = "Colon"
    THEN if_colon_form(toks, condition.p, condition.v)
    ELSE if_brace_form(toks, condition.p, condition.v))

\* Parser::try_block_caught_type_string: T1 | T2 | ...
RECURSIVE caught_types(_, _, _)
caught_types(toks, p, types) ==
    IF current(toks, p).kind # "Identifier"
    THEN expected_token_err(<<"an identifier">>, toks, p)
    ELSE LET ts == Append(types, current(toks, p).val) IN
         IF current(toks, next(p)).kind = "Pipe"
         THEN caught_types(toks, next(next(p)), ts)
         ELSE Ok(ts, next(p))

try_block_caught_type_string(toks, p) == caught_types(toks, p, <<>>)

\* the variable of a catch clause, if there is one
catch_var(toks, p) ==
    IF current(toks, p).kind = "RightParen" THEN Ok(None, p)
    ELSE and_then(expression(toks, p, Precedence_Lowest), LAMBDA e:
         Ok(Some(e.v), e.p))

\* the loop over the `catch (..) { .. }` parts of a try statement
catches_loop(toks, p, catches) ==
    IF current(toks, p).kind # "Catch" THEN Ok(catches, p)
    ELSE and_then(lparen(toks, next(p)), LAMBDA open:
         and_then(try_block_caught_type_string(toks, open.p), LAMBDA types:
         and_then(catch_var(toks, types.p), LAMBDA variable:
         and_then(rparen(toks, variable.p), LAMBDA close:
         and_then(lbrace(toks, close.p), LAMBDA lb:
         and_then(braced_block(toks, lb.p), LAMBDA body:
         catches_loop(toks, body.p,
                      Append(catches, Catch(types.v, variable.v, body.v)))))))))

\* the `finally { .. }` part of a try statement, if there is one
try_finally(toks, p) ==
    IF current(toks, p).kind = "Finally"
    THEN and_then(lbrace(toks, next(p)), LAMBDA lb:
         and_then(braced_block(toks, lb.p), LAMBDA b:
         Ok(Some(b.v), b.p)))
    ELSE Ok(None, p)

\* try_is_bare with the finally block forgotten: a try statement without
\* catches is bare
try_is_bare_without_catches(catches, finally) == Len(catches) = 0

\* whether a parsed try statement lacks both its catches and its finally
try_is_bare(catches, finally) == Len(catches) = 0 /\ finally = None

\* TokenKind::Try arm of Parser::statement
try_statement(toks, p) ==
    LET start_span == current(toks, p).span IN
    and_then(lbrace(toks, next(p)), LAMBDA lb:
    and_then(braced_block(toks, lb.p), LAMBDA body:
    and_then(catches_loop(toks, body.p, <<>>), LAMBDA catches:
    and_then(try_finally(toks, catches.p), LAMBDA finally:
    IF try_is_bare(catches.v, finally.v)
    THEN Err(ParseError_TryWithoutCatchOrFinally(start_span), finally.p)
    ELSE Ok(Statement_Try(body.v, catches.v, finally.v), finally.p)))))

\* the loop over the values of an echo statement
echo_loop(toks, p, values) ==
    and_then(expression(toks, p, Precedence_Lowest), LAMBDA value:
    IF current(toks, value.p).kind = "Comma"
    THEN echo_loop(toks, next(value.p), Append(values, value.v))
    ELSE Ok(Append(values, value.v), value.p))

\* TokenKind::Echo arm of Parser::statement
echo_statement(toks, p) ==
    and_then(echo_loop(toks, next(p), <<>>), LAMBDA values:
    and_then(semi(toks, values.p), LAMBDA sc:
    Ok(Statement_Echo(values.v), sc.p)))

\* Result::ok(): the value of a result, its error dropped
ok(r) == IF r.ok THEN Some(r.v) ELSE None

\* TokenKind::Return arm of Parser::statement
return_statement(toks, p) ==
    IF current(toks, next(p)).kind = "SemiColon"
    THEN and_then(semi(toks, next(p)), LAMBDA sc:
         Ok(Statement_Return(None), sc.p))
    ELSE with(expression(toks, next(p), Precedence_Lowest), LAMBDA value:
         and_then(semi(toks, value.p), LAMBDA sc:
         Ok(Statement_Return(ok(value)), sc.p)))

\* the arm of Parser::statement that parses an expression statement
expression_statement(toks, p) ==
    and_then(expression(toks, p, Precedence_Lowest), LAMBDA expr:
    and_then(semi(toks, expr.p), LAMBDA sc:
    Ok(Statement_Expression(expr.v), sc.p)))

\* the guard of the TokenKind::Function arm of Parser::statement
function_arm_guard(toks, p) ==
    current(toks, p).kind = "Function"
    /\ peek(toks, p).kind \in {"Identifier", "Null", "Ampersand"}

\* a mutation of ampersand_starts_closure: the token after `&` is not looked at
ampersand_never_starts_closure(toks, p) == FALSE

\* the test inside the TokenKind::Function arm: the token after `function`
\* is `&`, and the first token left in the iterator (the token after the
\* peeked `&`) is there and is no Identifier
ampersand_starts_closure(toks, p) ==
    /\ peek(toks, p).kind = "Ampersand"
    /\ p + 2 <= Len(toks)
    /\ toks[p + 2].kind # "Identifier"

\* a mutation of function_statement: the look at the token after `&` has
\* stepped over `function` and `&`
function_statement_after_lookahead(toks, p) ==
    IF ampersand_starts_closure(toks, p)
    THEN and_then(expression(toks, next(next(p)), Precedence_Lowest), LAMBDA expr:
         and_then(semi(toks, expr.p), LAMBDA sc:
         Returned(Statement_Expression(expr.v), sc.p)))
    ELSE function(toks, p)

\* TokenKind::Function arm of Parser::statement
function_statement(toks, p) ==
    IF ampersand_starts_closure(toks, p)
    THEN and_then(expression(toks, p, Precedence_Lowest), LAMBDA expr:
         and_then(semi(toks, expr.p), LAMBDA sc:
         Returned(Statement_Expression(expr.v), sc.p)))
    ELSE function(toks, p)

\* one variable of a static statement and its optional default
static_var(toks, p) ==
    and_then(var(toks, p), LAMBDA name:
    IF current(toks, name.p).kind = "Equals"
    THEN and_then(expression(toks, next(name.p), Precedence_Lowest), LAMBDA default:
         Ok(StaticVar(Expression_Variable(name.v), Some(default.v)), default.p))
    ELSE Ok(StaticVar(Expression_Variable(name.v), None), name.p))

\* `loop { vars.push(..); if current is `,` { next } else { break } }`
static_vars_loop(toks, p, static_vars) ==
    and_then(static_var(toks, p), LAMBDA sv:
    IF current(toks, sv.p).kind = "Comma"
    THEN static_vars_loop(toks, next(sv.p), Append(static_vars, sv.v))
    ELSE Ok(Append(static_vars, sv.v), sv.p))

\* a mutation of static_arm_guard: the token after `static` is not looked at
static_arm_guard_without_peek(toks, p) == current(toks, p).kind = "Static"

\* the guard of the TokenKind::Static arm of Parser::statement
static_arm_guard(toks, p) ==
    current(toks, p).kind = "Static" /\ peek(toks, p).kind = "Variable"

\* TokenKind::Static arm of Parser::statement
static_statement(toks, p) ==
    and_then(static_vars_loop(toks, next(p), <<>>), LAMBDA static_vars:
    and_then(semi(toks, static_vars.p), LAMBDA sc:
    Ok(Statement_Static(static_vars.v), sc.p)))

\* the match of Parser::statement when attributes were gathered
statement_match_after_attributes(toks, p) ==
    LET t == current(toks, p) IN
    CASE t.kind \in {"Abstract", "Readonly", "Final", "Class"} ->
           class_definition(toks, p)
      [] t.kind = "Interface" -> interface_definition(toks, p)
      [] t.kind = "Trait" -> trait_definition(toks, p)
      [] t.kind = "Enum" -> enum_definition(toks, p)
      [] function_arm_guard(toks, p) -> function_statement(toks, p)
      [] OTHER ->
           Err(ParseError_ExpectedItemDefinitionAfterAttributes(t.span), p)

\* the match of Parser::statement on the kind of the current token
statement_match(toks, p) ==
    LET kind == current(toks, p).kind IN
    CASE kind \in {"Abstract", "Readonly", "Final", "Class"} ->
           class_definition(toks, p)
      [] kind = "Interface" -> interface_definition(toks, p)
      [] kind = "Trait" -> trait_definition(toks, p)
      [] kind = "Enum" -> enum_definition(toks, p)
      [] function_arm_guard(toks, p) -> function_statement(toks, p)
      [] static_arm_guard(toks, p) -> static_statement(toks, p)
      [] kind = "InlineHtml" ->
           Ok(Statement_InlineHtml(current(toks, p).val), next(p))
      [] kind = "Switch" -> switch_statement(toks, p)
      [] kind = "If" -> if_statement(toks, p)
      [] kind = "Echo" -> echo_statement(toks, p)
      [] kind = "Return" -> return_statement(toks, p)
      [] kind = "SemiColon" -> Ok(Statement_Noop, next(p))
      [] kind = "Try" -> try_statement(toks, p)
      [] kind = "LeftBrace" ->
           and_then(braced_block(toks, next(p)), LAMBDA body:
           Ok(Statement_Block(body.v), body.p))
      [] OTHER -> expression_statement(toks, p)

\* Parser::statement(state), for the statement kinds of the model
statement(toks, p0) ==
    and_then(gather_attributes(toks, p0), LAMBDA attrs:
    and_then(IF attrs.v THEN statement_match_after_attributes(toks, attrs.p)
             ELSE statement_match(toks, attrs.p), LAMBDA r:
    IF "returned" \in DOMAIN r THEN r
    ELSE Ok(r.v, skip_comments(toks, r.p))))

\* Parser::full_name: a plain, qualified or fully qualified name
full_name(toks, p) ==
    IF current(toks, p).kind \in {"Identifier", "QualifiedIdentifier",
                                  "FullyQualifiedIdentifier"}
    THEN Ok(current(toks, p).val, next(p))
    ELSE expected_token_err(<<"an identifier">>, toks, p)

\* the top-level statements of a braced namespace, up to one of stops
top_level_statements_until(toks, p, stops, body) ==
    IF current(toks, p).kind \in stops THEN Ok(body, p)
    ELSE and_then(top_level_statement(toks, p), LAMBDA s:
         top_level_statements_until(toks, s.p, stops, Append(body, s.v)))

\* Parser::namespace: `namespace Name;` or `namespace Name { statements }`;
\* the cursor is on `namespace`
namespace(toks, p) ==
    and_then(full_name(toks, next(p)), LAMBDA name:
    IF current(toks, name.p).kind = "LeftBrace"
    THEN and_then(top_level_statements_until(toks, next(name.p),
                                             {"RightBrace", "Eof"}, <<>>),
                  LAMBDA body:
         and_then(rbrace(toks, body.p), LAMBDA close:
         Ok(Statement_Namespace(name.v, body.v), close.p)))
    ELSE and_then(semi(toks, name.p), LAMBDA sc:
         Ok(Statement_Namespace(name.v, <<>>), sc.p)))

\* `use function`, `use const` or plain `use`; the cursor is after `use`
use_kind(toks, p) ==
    CASE current(toks, p).kind = "Function" -> Ok("Function", next(p))
      [] current(toks, p).kind = "Const" -> Ok("Const", next(p))
      [] OTHER -> Ok("Normal", p)

\* one name of a use statement and its optional `as alias`
use_item(toks, p) ==
    and_then(full_name(toks, p), LAMBDA name:
    IF current(toks, name.p).kind = "As"
    THEN and_then(ident(toks, next(name.p)), LAMBDA alias:
         Ok(Use(name.v, Some(alias.v)), alias.p))
    ELSE Ok(Use(name.v, None), name.p))

\* `while current is not `}` { .. }` of the group form
group_uses_loop(toks, p, uses) ==
    IF current(toks, p).kind = "RightBrace" THEN Ok(uses, p)
    ELSE and_then(use_item(toks, p), LAMBDA item:
         IF current(toks, item.p).kind = "Comma"
         THEN group_uses_loop(toks, next(item.p), Append(uses, item.v))
         ELSE group_uses_loop(toks, item.p, Append(uses, item.v)))

\* `while !state.is_eof() { .. }` of the plain form: the loop ends after
\* the `;` that follows a name without comma
uses_loop(toks, p, uses) ==
    IF is_eof(toks, p) THEN Ok(uses, p)
    ELSE and_then(use_item(toks, p), LAMBDA item:
         IF current(toks, item.p).kind = "Comma"
         THEN uses_loop(toks, next(item.p), Append(uses, item.v))
         ELSE and_then(semi(toks, item.p), LAMBDA sc:
              Ok(Append(uses, item.v), sc.p)))

\* TokenKind::Use arm of Parser::top_level_statement
use_statement(toks, p) ==
    and_then(use_kind(toks, next(p)), LAMBDA kind:
    IF peek(toks, kind.p).kind = "LeftBrace"
    THEN and_then(full_name(toks, kind.p), LAMBDA pre:
         and_then(group_uses_loop(toks, next(pre.p), <<>>), LAMBDA uses:
         and_then(rbrace(toks, uses.p), LAMBDA close:
         and_then(semi(toks, close.p), LAMBDA sc:
         Ok(Statement_GroupUse(pre.v, kind.v, uses.v), sc.p)))))
    ELSE and_then(uses_loop(toks, kind.p, <<>>), LAMBDA uses:
         Ok(Statement_Use(uses.v, kind.v), uses.p)))

\* `loop { name = value; if current is `,` { next } else { break } }`
constants_loop(toks, p, constants) ==
    and_then(ident(toks, p), LAMBDA name:
    and_then(expect_token({"Equals"}, toks, name.p, <<"=">>), LAMBDA eq:
    and_then(expression(toks, eq.p, Precedence_Lowest), LAMBDA value:
    IF current(toks, value.p).kind = "Comma"
    THEN constants_loop(toks, next(value.p),
                        Append(constants, Constant(name.v, value.v)))
    ELSE Ok(Append(constants, Constant(name.v, value.v)), value.p))))

\* TokenKind::Const arm of Parser::top_level_statement
const_statement(toks, p) ==
    and_then(constants_loop(toks, next(p), <<>>), LAMBDA constants:
    and_then(semi(toks, constants.p), LAMBDA sc:
    Ok(Statement_Constant(constants.v), sc.p)))

\* TokenKind::HaltCompiler arm of Parser::top_level_statement
halt_compiler_statement(toks, p) ==
    IF current(toks, next(p)).kind = "InlineHtml"
    THEN Ok(Statement_HaltCompiler(Some(current(toks, next(p)).val)),
            next(next(p)))
    ELSE Ok(Statement_HaltCompiler(None), next(p))

\* a mutation of top_level_statement: every statement goes to
\* Parser::statement
top_level_statement_without_own_arms(toks, p) ==
    and_then(statement(toks, skip_comments(toks, p)), LAMBDA r:
    Ok(r.v, r.p))

\* Parser::top_level_statement(state)
top_level_statement(toks, p0) ==
    LET p == skip_comments(toks, p0)
        kind == current(toks, p).kind
    IN
    and_then(CASE kind = "Namespace" -> namespace(toks, p)
               [] kind = "Use" -> use_statement(toks, p)
               [] kind = "Const" -> const_statement(toks, p)
               [] kind = "HaltCompiler" -> halt_compiler_statement(toks, p)
               [] OTHER -> statement(toks, p),
             LAMBDA r: Ok(r.v, r.p))

----------------------------------------------------------------------------
(* The token vectors the model parses *)

K(kind) == <<kind, "">>
V(name) == <<"Variable", name>>
I(digits) == <<"LiteralInteger", digits>>
Id(name) == <<"Identifier", name>>
Cm == <<"SingleLineComment", "// c">>

\* the token vector of a source: `<?php`, the tokens of src, end of file;
\* each token's span is its place in the vector
Lex(src) ==
    [i \in 1..(Len(src) + 2) |->
        IF i = 1 THEN Token("OpenTag", "", 1)
        ELSE IF i = Len(src) + 2 THEN Token("Eof", "", i)
        ELSE Token(src[i - 1][1], src[i - 1][2], i)]

\* the infix operators that build an Infix node
BinaryOps ==
    {"Pow", "RightShiftEquals", "LeftShiftEquals", "CaretEquals",
     "AmpersandEquals", "PipeEquals", "PercentEquals", "PowEquals",
     "LogicalAnd", "LogicalOr", "LogicalXor", "Spaceship", "LeftShift",
     "RightShift", "Ampersand", "Pipe", "Caret", "Percent", "Instanceof",
     "Asterisk", "Slash", "Plus", "Minus", "Dot", "LessThan",
     "GreaterThan", "LessThanEquals", "GreaterThanEquals", "DoubleEquals",
     "TripleEquals", "BangEquals", "BangDoubleEquals", "AngledLeftRight",
     "BooleanAnd", "BooleanOr", "Equals", "PlusEquals", "MinusEquals",
     "DotEquals", "CoalesceEqual", "AsteriskEqual", "SlashEquals"}

OperandNames == <<"a", "b", "c", "d", "e", "f", "g", "h">>

\* x op1 y op2 z ;
TwoOperatorInputs ==
    { <<V("x"), K(op1), V("y"), K(op2), V("z"), K("SemiColon")>> :
        op1 \in BinaryOps, op2 \in BinaryOps }

\* ( x op1 y ) op2 z ;   and   x op1 ( y op2 z ) ;
ParenthesisedInputs ==
    { <<K("LeftParen"), V("x"), K(op1), V("y"), K("RightParen"), K(op2), V("z"),
        K("SemiColon")>> : op1 \in BinaryOps, op2 \in BinaryOps }
    \cup
    { <<V("x"), K(op1), K("LeftParen"), V("y"), K(op2), V("z"), K("RightParen"),
        K("SemiColon")>> : op1 \in BinaryOps, op2 \in BinaryOps }

\* a op1 b op2 c op1 d ... ; with n operators, op1 and op2 by turns
Chain(op1, op2, n) ==
    [i \in 1..(2 * n + 2) |->
        IF i = 2 * n + 2 THEN K("SemiColon")
        ELSE IF i % 2 = 1 THEN V(OperandNames[(i + 1) \div 2])
        ELSE IF (i \div 2) % 2 = 1 THEN K(op1) ELSE K(op2)]

ChainInputs ==
    { Chain(op1, op2, n) :
        <<op1, op2>> \in { pair \in BinaryOps \X BinaryOps :
                            Precedence_infix(pair[1]) = Precedence_infix(pair[2]) },
        n \in 2..MaxChain }

\* $x = 1 + 2 * 3;
AssignmentExample ==
    <<V("x"), K("Equals"), I("1"), K("Plus"), I("2"), K("Asterisk"), I("3"),
      K("SemiColon")>>

ExpressionInputs ==
    TwoOperatorInputs \cup ParenthesisedInputs \cup ChainInputs
    \cup {AssignmentExample}

RECURSIVE Flatten(_)
\* the concatenation of a sequence of sources
Flatten(parts) ==
    IF Len(parts) = 0 THEN <<>> ELSE Head(parts) \o Flatten(Tail(parts))

\* the sequences of 1..n elements of S
SeqsUpTo(S, n) == UNION { [1..k -> S] : k \in 1..n }

\* every token string of at most MaxLen tokens over a small alphabet
Alphabet == {V("a"), I("1"), K("Plus"), K("DoubleEquals"), K("SemiColon"),
             K("Return"), K("LeftBracket"), K("RightBracket"), K("Ellipsis"),
             K("DoubleArrow")}

ShortInputs == {<<>>} \cup SeqsUpTo(Alphabet, MaxLen)

\* expressions that do not parse, and two that do
MatchTwoDefaults ==
    <<K("Match"), K("LeftParen"), V("x"), K("RightParen"), K("LeftBrace"),
      K("Default"), K("DoubleArrow"), I("1"), K("Comma"),
      K("Default"), K("DoubleArrow"), I("2"), K("RightBrace")>>

BadExpressions ==
    { <<K("Plus")>>,
      <<V("x"), K("Plus")>>,
      <<V("x"), K("DoubleEquals"), V("y"), K("BangEquals"), V("z")>>,
      <<K("LeftParen"), V("x")>>,
      <<K("RightParen")>>,
      <<K("Bang"), K("Minus")>>,
      <<V("x"), K("LeftBracket")>>,
      MatchTwoDefaults }

GoodExpressions == { <<V("x")>>, <<V("x"), K("Plus"), I("1")>> }

\* a statement around an expression e
StatementAround(head, e) ==
    CASE head = "expression" -> e \o <<K("SemiColon")>>
      [] head = "echo" -> <<K("Echo")>> \o e \o <<K("SemiColon")>>
      [] head = "return" -> <<K("Return")>> \o e \o <<K("SemiColon")>>
      [] head = "if" -> <<K("If"), K("LeftParen")>> \o e
                        \o <<K("RightParen"), K("LeftBrace"), K("RightBrace")>>
      [] head = "switch" -> <<K("Switch"), K("LeftParen")>> \o e
                            \o <<K("RightParen"), K("LeftBrace"), K("RightBrace")>>

StatementHeads == {"expression", "echo", "return", "if", "switch"}

\* one statement around an expression, and the same after a first statement
StatementInputs ==
    { StatementAround(head, e) :
        head \in StatementHeads, e \in BadExpressions \cup GoodExpressions }
    \cup
    { <<V("a"), K("SemiColon")>> \o StatementAround(head, e) :
        head \in StatementHeads, e \in BadExpressions \cup GoodExpressions }
    \cup
    { <<K("Return"), K("SemiColon")>>,
      <<K("SemiColon")>>,
      <<K("SemiColon"), Cm>>,
      <<Cm>>,
      <<Cm, V("a"), K("SemiColon")>>,
      <<V("a"), Cm, K("Plus"), I("1"), K("SemiColon"), Cm>>,
      <<K("LeftBrace"), V("a"), K("SemiColon"), K("RightBrace")>>,
      <<V("a"), K("SemiColon"), K("CloseTag")>> }

Braces(body) == <<K("LeftBrace")>> \o body \o <<K("RightBrace")>>
Parens(e) == <<K("LeftParen")>> \o e \o <<K("RightParen")>>
OneStatement == <<V("a"), K("SemiColon")>>
EchoOne == <<K("Echo"), I("1"), K("SemiColon")>>
Bodies == {<<>>, EchoOne}

\* try { body } catches finally, followed by nothing or by a statement
CatchClauses ==
    { <<K("Catch")>> \o Parens(<<Id("E")>>) \o Braces(<<>>),
      <<K("Catch")>> \o Parens(<<Id("E"), K("Pipe"), Id("F"), V("e")>>)
                     \o Braces(OneStatement) }

FinallyClauses == { <<K("Finally")>> \o Braces(b) : b \in Bodies }

TrySrc(body, catches, finally, trailer) ==
    <<K("Try")>> \o Braces(body) \o Flatten(catches) \o finally \o trailer

TryInputs ==
    { TrySrc(body, catches, finally, trailer) :
        body \in Bodies,
        catches \in {<<>>} \cup SeqsUpTo(CatchClauses, MaxArms),
        finally \in {<<>>} \cup FinallyClauses,
        trailer \in {<<>>, OneStatement} }
    \cup
    { OneStatement \o TrySrc(<<>>, <<>>, <<>>, <<>>),
      TrySrc(TrySrc(<<>>, <<>>, <<>>, <<>>), <<>>,
             <<K("Finally")>> \o Braces(<<>>), <<>>),
      <<K("If")>> \o Parens(<<V("c")>>)
                  \o Braces(TrySrc(EchoOne, <<>>, <<>>, <<>>)) }

\* match ($x) { arms }, as a statement, assigned, echoed, and returned
ArmSources ==
    { <<K("Default"), K("DoubleArrow"), I("0")>>,
      <<I("1"), K("DoubleArrow"), V("a")>>,
      <<I("1"), K("Comma"), I("2"), K("DoubleArrow"), V("b")>> }

RECURSIVE Join(_, _)
\* the sources of parts, with sep between one and the next
Join(parts, sep) ==
    IF Len(parts) = 0 THEN <<>>
    ELSE IF Len(parts) = 1 THEN parts[1]
    ELSE Head(parts) \o sep \o Join(Tail(parts), sep)

MatchSrc(arms, last_comma) ==
    <<K("Match")>> \o Parens(<<V("x")>>)
                   \o Braces(Join(arms, <<K("Comma")>>) \o last_comma)

MatchContexts == {<<>>, <<V("r"), K("Equals")>>, <<K("Echo")>>, <<K("Return")>>}

MatchInputs ==
    { context \o MatchSrc(arms, last_comma) \o <<K("SemiColon")>> :
        context \in MatchContexts,
        arms \in SeqsUpTo(ArmSources, MaxArms),
        last_comma \in {<<>>, <<K("Comma")>>} }

\* array literals of both spellings, of at most MaxArms items
ItemSources ==
    { <<V("a")>>,
      <<V("a"), K("DoubleArrow"), V("b")>>,
      <<K("Ellipsis"), V("a")>>,
      <<K("Ellipsis"), V("a"), K("DoubleArrow"), V("b")>> }

ArrayInputs ==
    { <<K("LeftBracket")>> \o Join(items, <<K("Comma")>>)
                           \o <<K("RightBracket"), K("SemiColon")>> :
        items \in {<<>>} \cup SeqsUpTo(ItemSources, MaxArms) }
    \cup
    { <<K("Array")>> \o Parens(Join(items, <<K("Comma")>>)) \o <<K("SemiColon")>> :
        items \in {<<>>} \cup SeqsUpTo(ItemSources, MaxArms) }

\* if statements: each head with each continuation, of its own form and of
\* the other form
IfHeads ==
    { [form |-> "brace", src |-> <<K("If")>> \o Parens(<<V("a")>>) \o Braces(b)] :
        b \in Bodies }
    \cup
    { [form |-> "colon", src |-> <<K("If")>> \o Parens(<<V("a")>>) \o <<K("Colon")>> \o b] :
        b \in Bodies }

EndIf == <<K("EndIf"), K("SemiColon")>>
BraceElseIf == <<K("ElseIf")>> \o Parens(<<V("b")>>) \o Braces(EchoOne)
ColonElseIf == <<K("ElseIf")>> \o Parens(<<V("b")>>) \o <<K("Colon")>> \o EchoOne
BraceElse == <<K("Else")>> \o Braces(EchoOne)
ColonElse == <<K("Else"), K("Colon")>> \o EchoOne

\* the continuations that stay in the brace form
BraceTails == { <<>>, BraceElseIf, BraceElse, BraceElseIf \o BraceElse,
                BraceElseIf \o BraceElseIf }

\* the continuations that stay in the colon form
ColonTails == { EndIf, ColonElseIf \o EndIf, ColonElse \o EndIf,
                ColonElseIf \o ColonElse \o EndIf,
                ColonElseIf \o ColonElseIf \o EndIf }

\* continuations that open in the colon form, after a brace-form head
ColonOpeningTails ==
    { ColonElseIf \o EndIf, ColonElse \o EndIf, ColonElseIf \o ColonElse \o EndIf,
      ColonElseIf, ColonElse }

\* continuations that open in the brace form, after a colon-form head
BraceOpeningTails ==
    { BraceElseIf, BraceElse, BraceElseIf \o BraceElse,
      BraceElseIf \o EndIf, BraceElse \o EndIf }

PureIfInputs ==
    { h.src \o t : h \in {h \in IfHeads : h.form = "brace"}, t \in BraceTails }
    \cup
    { h.src \o t : h \in {h \in IfHeads : h.form = "colon"}, t \in ColonTails }

MixedIfInputs ==
    { h.src \o t : h \in {h \in IfHeads : h.form = "brace"}, t \in ColonOpeningTails }
    \cup
    { h.src \o t : h \in {h \in IfHeads : h.form = "colon"}, t \in BraceOpeningTails }

\* if ($a) { echo 1; } elseif ($b): echo 2; endif;
MixedIfExample ==
    <<K("If"), K("LeftParen"), V("a"), K("RightParen"),
      K("LeftBrace"), K("Echo"), I("1"), K("SemiColon"), K("RightBrace"),
      K("ElseIf"), K("LeftParen"), V("b"), K("RightParen"), K("Colon"),
      K("Echo"), I("2"), K("SemiColon"), K("EndIf"), K("SemiColon")>>

IfInputs == PureIfInputs \cup MixedIfInputs \cup {MixedIfExample}

\* switch statements of both forms, of at most MaxArms arms
SwitchArms ==
    [head : {"case", "default"}, sep : {"Colon", "SemiColon"}, body : Bodies]

ArmSrc(arm) ==
    (IF arm.head = "case" THEN <<K("Case"), I("1")>> ELSE <<K("Default")>>)
    \o <<K(arm.sep)>> \o arm.body

RECURSIVE ArmsSrc(_)
ArmsSrc(arms) ==
    IF Len(arms) = 0 THEN <<>> ELSE ArmSrc(Head(arms)) \o ArmsSrc(Tail(arms))

SwitchSrc(form, arms) ==
    <<K("Switch")>> \o Parens(<<V("e")>>)
    \o (IF form = "brace" THEN Braces(ArmsSrc(arms))
        ELSE <<K("Colon")>> \o ArmsSrc(arms) \o <<K("EndSwitch"), K("SemiColon")>>)

SwitchForms == {"brace", "colon"}
SwitchArmSeqs == {<<>>} \cup SeqsUpTo(SwitchArms, MaxArms)

SwitchInputs ==
    { SwitchSrc(form, arms) : form \in SwitchForms, arms \in SwitchArmSeqs }

\* `function`, what follows it, a parameter list and a body, with and
\* without a closing `;`
FunctionMids ==
    { <<Id("name")>>, <<K("Null")>>, <<K("Ampersand"), Id("name")>>,
      <<K("Ampersand"), K("Null")>>, <<>>, <<K("Ampersand")>> }
ParamSources == {<<>>, <<V("p")>>}
FunctionSrc(mid, params, body, end) ==
    <<K("Function")>> \o mid \o Parens(params) \o Braces(body) \o end
FunctionExample ==
    FunctionSrc(<<K("Ampersand"), Id("name")>>, <<>>, <<>>, <<>>)
    \o FunctionSrc(<<>>, <<>>, <<>>, <<K("SemiColon")>>)
FunctionInputs ==
    { FunctionSrc(mid, params, body, end) :
        mid \in FunctionMids, params \in ParamSources, body \in Bodies,
        end \in {<<>>, <<K("SemiColon")>>} }
    \cup { Braces(FunctionSrc(mid, <<>>, <<>>, <<K("SemiColon")>>)) :
             mid \in FunctionMids }
    \cup { FunctionExample, <<K("Function")>>, <<K("Function"), K("Ampersand")>>,
           <<K("Function"), Cm, Id("name")>> \o Parens(<<>>) \o Braces(<<>>) }

\* `static` and what follows it
StaticItems == {"bare", "default"}
StaticItemSrc(item) ==
    IF item = "bare" THEN <<V("s")>> ELSE <<V("s"), K("Equals"), I("1")>>
StaticVarsSrc(items) ==
    <<K("Static")>>
    \o Join([i \in 1..Len(items) |-> StaticItemSrc(items[i])], <<K("Comma")>>)
    \o <<K("SemiColon")>>
StaticClosureSrc ==
    <<K("Static"), K("Function")>> \o Parens(<<>>) \o Braces(<<>>)
    \o <<K("SemiColon")>>
StaticArrowSrc ==
    <<K("Static"), K("Fn")>> \o Parens(<<>>)
    \o <<K("DoubleArrow"), I("1"), K("SemiColon")>>
StaticMembers ==
    { <<Id("x")>>, <<V("p")>>, <<Id("f")>> \o Parens(<<>>) }
StaticScopeSrc(member) ==
    <<K("Static"), K("DoubleColon")>> \o member \o <<K("SemiColon")>>
\* tokens that are none of a variable, `function`, `fn` and `::`
StaticOtherFollowers ==
    { K("SemiColon"), I("1"), Id("x"), K("LeftParen"), K("Equals"),
      K("Static"), K("Comma"), K("Arrow"), K("LeftBrace"), K("Class"), Cm }
StaticOtherSrc(follower) == <<K("Static"), follower, K("SemiColon")>>
StaticInputs ==
    { StaticVarsSrc(items) : items \in SeqsUpTo(StaticItems, MaxArms) }
    \cup { StaticClosureSrc, StaticArrowSrc,
           <<V("r"), K("Equals")>> \o StaticClosureSrc,
           <<V("r"), K("Equals")>> \o StaticArrowSrc,
           <<K("Echo")>> \o StaticVarsSrc(<<"bare">>),
           <<K("Static"), V("s"), K("Comma"), K("SemiColon")>>,
           <<K("Static")>> }
    \cup { StaticScopeSrc(member) : member \in StaticMembers }
    \cup { StaticOtherSrc(follower) : follower \in StaticOtherFollowers }
    \cup { Braces(StaticOtherSrc(follower)) : follower \in StaticOtherFollowers }

\* `new` and what follows it
NewArgs == {<<>>} \cup SeqsUpTo({V("a"), I("1")}, MaxArms)
NewTargetSrc(args) ==
    <<K("New"), Id("T")>> \o Parens(Join(args, <<K("Comma")>>))
    \o <<K("SemiColon")>>
NewClassSrc(attrs, args) ==
    <<K("New")>> \o attrs \o <<K("Class")>> \o args \o Braces(<<>>)
    \o <<K("SemiColon")>>
AttributeGroup == <<K("Attribute"), Id("A"), K("RightBracket")>>
NewInputs ==
    { NewTargetSrc([i \in 1..Len(args) |-> <<args[i]>>]) : args \in NewArgs }
    \cup { NewClassSrc(attrs, args) :
             attrs \in {<<>>, AttributeGroup},
             args \in {<<>>, Parens(<<>>), Parens(<<V("a")>>)} }
    \cup { <<K("New"), Id("T"), K("SemiColon")>>,
           <<K("New"), V("c"), K("SemiColon")>>,
           <<V("r"), K("Equals"), K("New"), Id("T"), K("Plus"), I("1"),
             K("SemiColon")>>,
           <<K("New")>>, <<K("New"), K("SemiColon")>> }

\* target :: member, with and without an argument list
ScopeTargets == { <<Id("A")>>, <<V("o")>>, <<K("Static")>> }
NameMembers == { <<Id("x")>>, <<K("Class")>>, <<K("Echo")>> }
VariableMembers ==
    { <<V("p")>>, <<K("Dollar"), V("p")>>,
      <<K("Dollar")>> \o Braces(<<V("p")>>) }
BraceMembers == { Braces(<<V("m")>>), Braces(<<I("1"), K("Plus"), V("m")>>) }
OtherMembers ==
    { <<I("1")>>, <<>>, <<K("LeftParen")>>, <<K("DoubleColon")>>,
      <<K("Plus"), V("p")>>, <<K("LeftBracket")>> }
CallTails == { <<>>, Parens(<<>>), Parens(<<V("a")>>) }
ScopeSrc(target, member, call) ==
    target \o <<K("DoubleColon")>> \o member \o call \o <<K("SemiColon")>>
ScopeInputs ==
    { ScopeSrc(target, member, call) :
        target \in ScopeTargets,
        member \in NameMembers \cup VariableMembers \cup BraceMembers
                   \cup OtherMembers,
        call \in CallTails }

\* namespace, use, const and __halt_compiler statements, at the top level
\* and as the body of a block, an if statement and a function
NamespaceSrc == <<K("Namespace"), Id("N"), K("SemiColon")>>
UseSrc == <<K("Use"), Id("A"), K("SemiColon")>>
NamespaceBlockSrc == <<K("Namespace"), Id("N")>> \o Braces(UseSrc)
UseAliasSrc ==
    <<K("Use"), Id("A"), K("As"), Id("B"), K("Comma"), Id("C"), K("SemiColon")>>
UseFunctionSrc == <<K("Use"), K("Function"), Id("f"), K("SemiColon")>>
UseConstSrc == <<K("Use"), K("Const"), Id("C"), K("SemiColon")>>
GroupUseSrc ==
    <<K("Use"), Id("A")>>
    \o Braces(<<Id("b"), K("Comma"), Id("c"), K("As"), Id("d")>>)
    \o <<K("SemiColon")>>
ConstSrc == <<K("Const"), Id("X"), K("Equals"), I("1"), K("SemiColon")>>
ConstListSrc ==
    <<K("Const"), Id("X"), K("Equals"), I("1"), K("Comma"),
      Id("Y"), K("Equals"), I("2"), K("SemiColon")>>
HaltCompilerSrc == <<K("HaltCompiler")>>
HaltCompilerHtmlSrc == <<K("HaltCompiler"), <<"InlineHtml", "h">>>>
TopLevelOnlySources ==
    {NamespaceSrc, NamespaceBlockSrc, UseSrc, UseAliasSrc, UseFunctionSrc,
     UseConstSrc, GroupUseSrc, ConstSrc, ConstListSrc, HaltCompilerSrc,
     HaltCompilerHtmlSrc}
NestingContexts == {"block", "after", "if", "function"}
Nest(context, body) ==
    CASE context = "block" -> Braces(body)
      [] context = "after" -> Braces(OneStatement \o body)
      [] context = "if" ->
           <<K("If")>> \o Parens(<<V("a")>>) \o Braces(body)
      [] context = "function" ->
           <<K("Function"), Id("f")>> \o Parens(<<>>) \o Braces(body)
TopLevelInputs ==
    TopLevelOnlySources
    \cup { OneStatement \o src : src \in TopLevelOnlySources }
    \cup { Nest(context, src) :
             context \in NestingContexts, src \in TopLevelOnlySources }

\* attribute groups followed by an item definition or by something else, at
\* statement position and inside an expression
AttributeGroups(n) == IF n = 1 THEN AttributeGroup ELSE AttributeGroup \o AttributeGroup
ClassSrc(flags) == flags \o <<K("Class"), Id("C")>> \o Braces(<<>>)
NamedSrc(keyword) == <<K(keyword), Id("C")>> \o Braces(<<>>)
ClosureSrc(mid) == FunctionSrc(mid, <<>>, <<>>, <<>>)
ArrowSrc == <<K("Fn")>> \o Parens(<<>>) \o <<K("DoubleArrow"), I("1")>>
\* the statements that are item definitions
StatementItems ==
    { ClassSrc(flags) :
        flags \in {<<>>, <<K("Abstract")>>, <<K("Final")>>, <<K("Readonly")>>} }
    \cup { NamedSrc(keyword) : keyword \in {"Interface", "Trait", "Enum"} }
    \cup { ClosureSrc(mid) :
             mid \in {<<Id("name")>>, <<K("Null")>>, <<K("Ampersand"), Id("name")>>} }
\* statements that start with `function` and are no declaration
FunctionOthers ==
    { ClosureSrc(mid) \o <<K("SemiColon")>> :
        mid \in {<<>>, <<K("Ampersand")>>, <<K("Ampersand"), K("Null")>>} }
\* statements that do not start with an item definition
StatementOthers ==
    FunctionOthers
    \cup { StaticClosureSrc, StaticArrowSrc, ArrowSrc \o <<K("SemiColon")>>,
           OneStatement, <<K("SemiColon")>>, <<I("1"), K("SemiColon")>>,
           EchoOne, Braces(<<>>), <<>>, <<K("New"), Id("C"), K("SemiColon")>>,
           <<K("Static"), V("s"), K("SemiColon")>> }
\* the expressions that are item definitions
ExpressionItems ==
    { ClosureSrc(<<>>), ClosureSrc(<<K("Ampersand")>>), ArrowSrc,
      <<K("Static")>> \o ClosureSrc(<<>>), <<K("Static")>> \o ArrowSrc }
\* what else can stand where an expression is expected
ExpressionOthers ==
    { <<I("1")>>, <<V("b")>>, ClassSrc(<<>>), <<K("New"), Id("C")>>,
      <<K("Static"), K("DoubleColon"), Id("x")>>, <<>>,
      Parens(<<V("b")>>), <<K("Minus"), I("1")>> }
ExpressionPrefixes == { <<V("a"), K("Equals")>>, <<K("Echo")>>, <<K("Return")>> }
GroupCounts == {1, 2}
AttributeStatementSrc(n, src) == AttributeGroups(n) \o src
AttributeExpressionSrc(pre, n, src) ==
    pre \o AttributeGroups(n) \o src \o <<K("SemiColon")>>
AttributeInputs ==
    { AttributeStatementSrc(n, src) :
        n \in GroupCounts, src \in StatementItems \cup StatementOthers }
    \cup { AttributeExpressionSrc(pre, n, src) :
             pre \in ExpressionPrefixes, n \in GroupCounts,
             src \in ExpressionItems \cup ExpressionOthers }

\* interpolated strings: a first StringPart token, then at most MaxParts
\* parts, the closing quote
SP(bytes) == <<"StringPart", bytes>>
PartForms ==
    {"const", "empty", "brace", "dollar_brace", "dollar_brace_index",
     "dollar_brace_expression", "variable", "variable_integer",
     "variable_negative", "variable_name", "variable_variable",
     "variable_property", "variable_nullsafe"}
PartSrc(form) ==
    CASE form = "const" -> <<SP("!")>>
      [] form = "empty" -> <<SP("")>>
      [] form = "brace" -> Braces(<<V("name")>>)
      [] form = "dollar_brace" ->
           <<K("DollarLeftBrace"), Id("var"), K("RightBrace")>>
      [] form = "dollar_brace_index" ->
           <<K("DollarLeftBrace"), Id("var"), K("LeftBracket"), I("1"),
             K("RightBracket"), K("RightBrace")>>
      [] form = "dollar_brace_expression" ->
           <<K("DollarLeftBrace"), V("e"), K("RightBrace")>>
      [] form = "variable" -> <<V("v")>>
      [] form = "variable_integer" ->
           <<V("v"), K("LeftBracket"), I("0"), K("RightBracket")>>
      [] form = "variable_negative" ->
           <<V("v"), K("LeftBracket"), K("Minus"), I("1"), K("RightBracket")>>
      [] form = "variable_name" ->
           <<V("v"), K("LeftBracket"), Id("k"), K("RightBracket")>>
      [] form = "variable_variable" ->
           <<V("v"), K("LeftBracket"), V("i"), K("RightBracket")>>
      [] form = "variable_property" -> <<V("v"), K("Arrow"), Id("p")>>
      [] form = "variable_nullsafe" -> <<V("v"), K("NullsafeArrow"), Id("p")>>
FirstParts == {"hello, ", ""}
PartLists == {<<>>} \cup SeqsUpTo(PartForms, MaxParts)
InterpolatedSrc(first, forms) ==
    <<V("s"), K("Equals"), SP(first)>>
    \o Flatten([i \in 1..Len(forms) |-> PartSrc(forms[i])])
    \o <<K("DoubleQuote"), K("SemiColon")>>
\* strings that are not closed or hold a token that starts no part
BrokenStrings ==
    { <<V("s"), K("Equals"), SP("a"), K("SemiColon")>>,
      <<V("s"), K("Equals"), SP("a"), K("Plus"), K("DoubleQuote"), K("SemiColon")>>,
      <<V("s"), K("Equals"), SP("a"), V("v"), K("LeftBracket"), K("Minus"),
        K("RightBracket"), K("DoubleQuote"), K("SemiColon")>>,
      <<V("s"), K("Equals"), SP("a"), V("v"), K("LeftBracket"), K("Plus"),
        K("RightBracket"), K("DoubleQuote"), K("SemiColon")>> }
InterpolatedInputs ==
    { InterpolatedSrc(first, forms) : first \in FirstParts, forms \in PartLists }
    \cup BrokenStrings

\* expressions of several shapes, bare, in parentheses and in two pairs
WrapSources ==
    { <<V("a")>>,
      <<V("a"), K("Plus"), V("b"), K("Asterisk"), V("c")>>,
      <<V("a"), K("Equals"), V("b"), K("Question"), I("1"), K("Colon"), I("2")>>,
      <<K("Minus"), V("a"), K("Pow"), V("b")>>,
      <<K("Bang"), V("a"), K("Coalesce"), V("b"), K("QuestionColon"), V("c")>>,
      <<V("a"), K("LeftBracket"), V("i"), K("RightBracket"), K("Increment")>>,
      <<K("IntCast"), V("a"), K("Dot"), K("At"), V("b")>>,
      <<V("a"), K("Arrow"), Id("p"), K("Minus"), K("Decrement"), V("b")>> }
WrapInputs ==
    { E \o <<K("SemiColon")>> : E \in WrapSources }
    \cup { Parens(E) \o <<K("SemiColon")>> : E \in WrapSources }
    \cup { Parens(Parens(E)) \o <<K("SemiColon")>> : E \in WrapSources }

\* ternaries: alone, nested in the else and then positions, and after an
\* infix operator that binds tighter than `? :`
Semi(e) == e \o <<K("SemiColon")>>
TighterThanTernary ==
    { op \in BinaryOps : Precedence_infix(op) > Precedence_Ternary }
TernarySrc(c, t, e) == c \o <<K("Question")>> \o t \o <<K("Colon")>> \o e
ShortTernarySrc(c, e) == c \o <<K("QuestionColon")>> \o e
TernaryNested ==
    { TernarySrc(<<V("a")>>, <<V("b")>>, <<V("c")>>),
      ShortTernarySrc(<<V("a")>>, <<V("c")>>),
      TernarySrc(<<V("a")>>, <<V("b")>>,
                 TernarySrc(<<V("c")>>, <<V("d")>>, <<V("e")>>)),
      TernarySrc(<<V("a")>>, TernarySrc(<<V("b")>>, <<V("c")>>, <<V("d")>>),
                 <<V("e")>>),
      ShortTernarySrc(<<V("a")>>, ShortTernarySrc(<<V("b")>>, <<V("c")>>)),
      TernarySrc(<<V("a")>>, <<V("b")>>, ShortTernarySrc(<<V("c")>>, <<V("d")>>)),
      ShortTernarySrc(<<V("a")>>, TernarySrc(<<V("b")>>, <<V("c")>>, <<V("d")>>)),
      <<V("x"), K("Equals")>> \o TernarySrc(<<V("a")>>, <<V("b")>>, <<V("c")>>),
      TernarySrc(<<K("Bang"), V("a")>>, <<V("b")>>, <<V("c")>>),
      TernarySrc(<<V("a"), K("Coalesce"), V("b")>>, <<V("c")>>, <<V("d")>>) }
TernaryInputs ==
    { Semi(e) : e \in TernaryNested }
    \cup { Semi(TernarySrc(<<V("a"), K(op), V("b")>>, <<V("c")>>, <<V("d")>>)) :
             op \in TighterThanTernary }
    \cup { Semi(ShortTernarySrc(<<V("a"), K(op), V("b")>>, <<V("c")>>)) :
             op \in TighterThanTernary }
    \cup { Semi(TernarySrc(<<V("a")>>, <<V("b")>>, <<V("c"), K(op), V("d")>>)) :
             op \in TighterThanTernary }

\* `??` next to itself, to the ternary and to each infix operator
CoalesceSrc(l, r) == l \o <<K("Coalesce")>> \o r
CoalesceInputs ==
    { Semi(e) : e \in
        { CoalesceSrc(<<V("a")>>, <<V("b")>>),
          CoalesceSrc(<<V("a")>>, CoalesceSrc(<<V("b")>>, <<V("c")>>)),
          TernarySrc(<<V("a")>>, <<V("b")>>, CoalesceSrc(<<V("c")>>, <<V("d")>>)),
          ShortTernarySrc(CoalesceSrc(<<V("a")>>, <<V("b")>>), <<V("c")>>),
          CoalesceSrc(<<K("Bang"), V("a")>>, <<V("b")>>) } }
    \cup { Semi(CoalesceSrc(<<V("a")>>, <<V("b"), K(op), V("c")>>)) :
             op \in BinaryOps }
    \cup { Semi(CoalesceSrc(<<V("a"), K(op), V("b")>>, <<V("c")>>)) :
             op \in BinaryOps }

\* the postfix forms other than `??`, after an operand
PostfixForms ==
    {"inc", "dec", "call", "index", "prop", "nprop", "method", "nmethod",
     "const", "sprop", "smethod", "chain"}
PostfixSrc(form) ==
    CASE form = "inc" -> <<K("Increment")>>
      [] form = "dec" -> <<K("Decrement")>>
      [] form = "call" -> <<K("LeftParen"), K("RightParen")>>
      [] form = "index" -> <<K("LeftBracket"), I("0"), K("RightBracket")>>
      [] form = "prop" -> <<K("Arrow"), Id("p")>>
      [] form = "nprop" -> <<K("NullsafeArrow"), Id("p")>>
      [] form = "method" -> <<K("Arrow"), Id("p"), K("LeftParen"), K("RightParen")>>
      [] form = "nmethod" ->
           <<K("NullsafeArrow"), Id("p"), K("LeftParen"), K("RightParen")>>
      [] form = "const" -> <<K("DoubleColon"), Id("p")>>
      [] form = "sprop" -> <<K("DoubleColon"), V("p")>>
      [] form = "smethod" ->
           <<K("DoubleColon"), Id("p"), K("LeftParen"), K("RightParen")>>
      [] form = "chain" ->
           <<K("Arrow"), Id("p"), K("LeftBracket"), I("0"), K("RightBracket"),
             K("Increment")>>
PrefixKinds ==
    {"Bang", "Print", "BitwiseNot", "Decrement", "Increment", "Minus", "Plus",
     "At"} \cup CastKinds
PostfixInputs ==
    { Semi(<<V("a"), K(op), V("b")>> \o PostfixSrc(f)) :
        op \in BinaryOps, f \in PostfixForms }
    \cup { Semi(<<V("a")>> \o PostfixSrc(f) \o <<K(op), V("b")>>) :
             op \in BinaryOps, f \in PostfixForms }
    \cup { Semi(<<K(pre), V("a")>> \o PostfixSrc(f)) :
             pre \in PrefixKinds \cup {"Clone"}, f \in PostfixForms }
    \cup { Semi(CoalesceSrc(<<V("a")>>, <<V("b")>> \o PostfixSrc(f))) :
             f \in PostfixForms }
    \cup { Semi(TernarySrc(<<V("a")>>, <<V("b")>>, <<V("c")>> \o PostfixSrc(f))) :
             f \in PostfixForms }

\* a prefix operator before  a op b,  a ?? b  and the ternaries
PrefixInputs ==
    { Semi(<<K(pre), V("a"), K(op), V("b")>>) :
        pre \in PrefixKinds, op \in BinaryOps }
    \cup { Semi(<<K(pre)>> \o CoalesceSrc(<<V("a")>>, <<V("b")>>)) :
             pre \in PrefixKinds }
    \cup { Semi(<<K(pre)>> \o TernarySrc(<<V("a")>>, <<V("b")>>, <<V("c")>>)) :
             pre \in PrefixKinds }
    \cup { Semi(<<K(pre)>> \o ShortTernarySrc(<<V("a")>>, <<V("b")>>)) :
             pre \in PrefixKinds }
    \cup { Semi(<<K(pre), K(pre2), V("a"), K(op), V("b")>>) :
             pre \in {"Bang", "Minus"}, pre2 \in {"Bang", "Minus", "Print"},
             op \in {"Plus", "BooleanAnd", "Pow", "Instanceof", "Equals"} }

\* every token string of at most MaxLen tags, inline HTML, comments and the
\* two smallest code tokens
Html == <<"InlineHtml", "h">>
TagAlphabet ==
    {K("OpenTag"), K("CloseTag"), Html, Cm, K("SemiColon"), V("a")}
TagInputs == SeqsUpTo(TagAlphabet, MaxLen)

Inputs ==
    PrefixInputs \cup PostfixInputs \cup CoalesceInputs \cup TernaryInputs \cup WrapInputs \cup InterpolatedInputs \cup AttributeInputs \cup TagInputs \cup TopLevelInputs \cup ScopeInputs \cup NewInputs \cup StaticInputs \cup ExpressionInputs \cup ShortInputs \cup StatementInputs \cup TryInputs
    \cup MatchInputs \cup ArrayInputs \cup IfInputs \cup SwitchInputs
    \cup FunctionInputs

----------------------------------------------------------------------------
(* Parser::parse: the loop over the top-level statements *)

Init ==
    /\ tokens \in { Lex(src) : src \in Inputs }
    /\ pos = 1
    /\ ast = <<>>
    /\ status = "running"
    /\ error = None
    /\ fmt_value = None
    /\ fmt_output = None

\* state.gather_comments(): the comments at the cursor are kept for the
\* statement that follows and stepped over
gather_comments(toks, p) == skip_comments(toks, p)

\* an open or close tag at the top level is stepped over
SkipTag ==
    /\ status = "running"
    /\ current(tokens, pos).kind \in {"OpenTag", "CloseTag"}
    /\ pos' = next(pos)
    /\ UNCHANGED <<tokens, ast, status, error, fmt_value, fmt_output>>

\* the loop ends at the end of the token vector
Finish ==
    /\ status = "running"
    /\ current(tokens, pos).kind = "Eof"
    /\ status' = "ok"
    /\ UNCHANGED <<tokens, pos, ast, error, fmt_value, fmt_output>>

\* only comments are left before the end of the token vector
CommentsToEof ==
    /\ status = "running"
    /\ current(tokens, pos).kind \notin {"Eof", "OpenTag", "CloseTag"}
    /\ is_eof(tokens, gather_comments(tokens, pos))
    /\ status' = "ok"
    /\ pos' = gather_comments(tokens, pos)
    /\ UNCHANGED <<tokens, ast, error, fmt_value, fmt_output>>

\* a mutation of ParseStatement: the statement is parsed and not pushed
ParseStatement_without_push ==
    /\ status = "running"
    /\ current(tokens, pos).kind \notin {"Eof", "OpenTag", "CloseTag"}
    /\ ~is_eof(tokens, gather_comments(tokens, pos))
    /\ with(top_level_statement(tokens, gather_comments(tokens, pos)), LAMBDA r:
            /\ r.ok
            /\ pos' = r.p)
    /\ UNCHANGED <<tokens, ast, status, error, fmt_value, fmt_output>>

\* a top-level statement is parsed and pushed
ParseStatement ==
    /\ status = "running"
    /\ current(tokens, pos).kind \notin {"Eof", "OpenTag", "CloseTag"}
    /\ ~is_eof(tokens, gather_comments(tokens, pos))
    /\ with(top_level_statement(tokens, gather_comments(tokens, pos)), LAMBDA r:
            /\ r.ok
            /\ ast' = Append(ast, r.v)
            /\ pos' = r.p)
    /\ UNCHANGED <<tokens, status, error, fmt_value, fmt_output>>

\* a top-level statement fails: parse returns its error, and the statements
\* pushed so far are dropped with it
FailStatement ==
    /\ status = "running"
    /\ current(tokens, pos).kind \notin {"Eof", "OpenTag", "CloseTag"}
    /\ ~is_eof(tokens, gather_comments(tokens, pos))
    /\ with(top_level_statement(tokens, gather_comments(tokens, pos)), LAMBDA r:
            /\ ~r.ok
            /\ status' = "err"
            /\ error' = r.v
            /\ pos' = r.p)
    /\ ast' = <<>>
    /\ UNCHANGED <<tokens, fmt_value, fmt_output>>

Next == SkipTag \/ Finish \/ CommentsToEof \/ ParseStatement \/ FailStatement

Spec == Init /\ [][Next]_vars

\* The sources cut off after each of their tokens: every loop of the parser
\* meets the end of the token vector at each place it can.
Truncations(src) == { SubSeq(src, 1, k) : k \in 0..Len(src) }
TruncatedFamilies ==
    WrapInputs \cup InterpolatedInputs \cup AttributeInputs \cup TopLevelInputs
    \cup ScopeInputs \cup NewInputs \cup StaticInputs \cup StatementInputs
    \cup TryInputs \cup MatchInputs \cup ArrayInputs \cup IfInputs
    \cup SwitchInputs \cup FunctionInputs \cup TernaryInputs \cup CoalesceInputs
    \cup { <<Cm>>, <<V("a"), K("SemiColon"), Cm>>, <<K("CloseTag"), Html>>,
           <<V("a"), K("SemiColon"), K("CloseTag"), Html, K("OpenTag"), V("b"),
             K("SemiColon")>> }
TruncatedInputs == UNION { Truncations(src) : src \in TruncatedFamilies }

TruncatedInit ==
    /\ tokens \in { Lex(src) : src \in TruncatedInputs }
    /\ pos = 1
    /\ ast = <<>>
    /\ status = "running"
    /\ error = None
    /\ fmt_value = None
    /\ fmt_output = None

\* parse is not interrupted: while the loop can take a step, it does. This
\* is WF_vars(Next) with ENABLED <<Next>>_vars written out: a step of Next
\* is possible exactly while status = "running" (each action has that
\* guard, and StepPossible below shows that one of them can then act).
TerminationSpec ==
    /\ TruncatedInit
    /\ [][Next]_vars
    /\ ([]<>(status # "running") \/ []<><<Next>>_vars)

----------------------------------------------------------------------------
(* ByteString (src/trunk_lexer/src/byte_string.rs) and the formatting of    *)
(* token kinds.  A byte string is the sequence of its bytes, and what the   *)
(* Debug implementation writes is the sequence of the character codes.      *)

Backslash == 92
DoubleQuote == 34

\* one lowercase hexadecimal digit, as `{:02x}` writes it
hex_digit(n) == IF n < 10 THEN 48 + n ELSE 87 + n

\* `\xNN`
hex_escape(b) == <<Backslash, 120, hex_digit(b \div 16), hex_digit(b % 16)>>

\* u8::escape_ascii of the standard library
escape_ascii(b) ==
    CASE b = 9 -> <<Backslash, 116>>
      [] b = 13 -> <<Backslash, 114>>
      [] b = 10 -> <<Backslash, 110>>
      [] b = 39 -> <<Backslash, 39>>
      [] b = 34 -> <<Backslash, 34>>
      [] b = 92 -> <<Backslash, 92>>
      [] b \in 32..126 -> <<b>>
      [] OTHER -> hex_escape(b)

\* the match on one byte of ByteString's Debug implementation
debug_byte(b) ==
    CASE b = 0 -> <<Backslash, 48>>
      [] b \in {10, 13, 9} -> escape_ascii(b)
      [] b \in (1..25) \cup (127..255) -> hex_escape(b)
      [] OTHER -> <<b>>

RECURSIVE debug_bytes(_)
\* `for &b in &self.0 { .. }`
debug_bytes(bytes) ==
    IF Len(bytes) = 0 THEN <<>>
    ELSE debug_byte(Head(bytes)) \o debug_bytes(Tail(bytes))

\* impl Debug for ByteString
fmt_debug(bytes) == <<DoubleQuote>> \o debug_bytes(bytes) \o <<DoubleQuote>>

Bytes == 0..255
\* bytes of every class of the Debug match, with the ends of its ranges
SomeBytes == {0, 1, 9, 10, 13, 25, 26, 31, 32, 34, 92, 97, 126, 127, 128, 255}
\* the byte strings of test_byte_string_debug
TestByteStrings == { <<97, 98, 99>>, <<0, 10, 13, 9>>, <<1, 16, 127, 255>> }
\* a backslash before the letter or digits of an escape: the bytes of the
\* PHP sources '\0', '\n', '\r', '\t' and '\x01'
BackslashStrings ==
    { <<Backslash, 48>>, <<Backslash, 110>>, <<Backslash, 114>>,
      <<Backslash, 116>>, <<Backslash, 120, 48, 49>> }
ByteStrings ==
    {<<>>} \cup { <<b>> : b \in Bytes } \cup SeqsUpTo(SomeBytes, MaxBytes)
    \cup TestByteStrings \cup BackslashStrings

\* token kinds to print: every kind without payload, and payloads for the
\* other kinds
Payloads == {"", "a", "name", "1.5", "// c", "a b"}
FixedKindTokens == { Token(kind, "", 0) : kind \in DOMAIN DisplayTable }
PayloadTokens ==
    { Token(kind, payload, 0) :
        kind \in PayloadKinds \cup {"Variable", "InlineHtml"},
        payload \in Payloads }
DocStringTokens ==
    { Token(kind, <<label, flavour>>, 0) :
        kind \in {"StartDocString", "EndDocString"}, label \in {"EOT", "a"},
        flavour \in {"Heredoc", "Nowdoc"} }

\* a token kind or a byte string is given to be formatted
FmtInit ==
    /\ tokens = <<>>
    /\ pos = 1
    /\ ast = <<>>
    /\ status = "idle"
    /\ error = None
    /\ fmt_output = None
    /\ \/ \E t \in FixedKindTokens : fmt_value = <<"TokenKind", t>>
       \/ \E t \in PayloadTokens : fmt_value = <<"TokenKind", t>>
       \/ \E t \in DocStringTokens : fmt_value = <<"TokenKind", t>>
       \/ \E bytes \in ByteStrings : fmt_value = <<"ByteString", bytes>>

\* format!("{}", kind)
Display ==
    /\ fmt_output = None
    /\ fmt_value[1] = "TokenKind"
    /\ fmt_output' = Some(to_string(fmt_value[2]))
    /\ UNCHANGED <<tokens, pos, ast, status, error, fmt_value>>

\* format!("{:?}", byte_string)
Debug ==
    /\ fmt_output = None
    /\ fmt_value[1] = "ByteString"
    /\ fmt_output' = Some(fmt_debug(fmt_value[2]))
    /\ UNCHANGED <<tokens, pos, ast, status, error, fmt_value>>

FmtNext == Display \/ Debug

FmtSpec == FmtInit /\ [][FmtNext]_vars

----------------------------------------------------------------------------
(* Properties.  The expected trees are written out with the abbreviations   *)
(* below, apart from the parser's own constructors.                         *)

Var(name) == <<"Variable", name>>
IntLit(digits) == <<"LiteralInteger", digits>>
Bin(lhs, op, rhs) == <<"Infix", lhs, op, rhs>>
ExprStmt(e) == <<"Expression", e>>

Done == status # "running"

\* the input is  x op1 y op2 z ;
IsTwoOperatorInput ==
    /\ Len(tokens) = 8
    /\ tokens[2] = Token("Variable", "x", 2)
    /\ tokens[3].kind \in BinaryOps
    /\ tokens[4] = Token("Variable", "y", 4)
    /\ tokens[5].kind \in BinaryOps
    /\ tokens[6] = Token("Variable", "z", 6)
    /\ tokens[7].kind = "SemiColon"

\* C1: of two infix operators of different precedence the one of higher
\* precedence binds its operands first, on whichever side it stands:
\* x op1 y op2 z is Infix(x, op1, Infix(y, op2, z)) when op2 is the higher
\* and Infix(Infix(x, op1, y), op2, z) when op1 is the higher; and
\* $x = 1 + 2 * 3; is Infix(x, =, Infix(1, +, Infix(2, *, 3))).
C1_PrecedenceGroups ==
    /\ (Done /\ IsTwoOperatorInput) =>
         LET op1 == tokens[3].kind
             op2 == tokens[5].kind
         IN
         /\ Precedence_infix(op2) > Precedence_infix(op1) =>
              /\ status = "ok"
              /\ ast = <<ExprStmt(Bin(Var("x"), op1, Bin(Var("y"), op2, Var("z"))))>>
         /\ Precedence_infix(op1) > Precedence_infix(op2) =>
              /\ status = "ok"
              /\ ast = <<ExprStmt(Bin(Bin(Var("x"), op1, Var("y")), op2, Var("z")))>>
    /\ (Done /\ tokens = Lex(AssignmentExample)) =>
         /\ status = "ok"
         /\ ast = <<ExprStmt(Bin(Var("x"), "Equals",
                                 Bin(IntLit("1"), "Plus",
                                     Bin(IntLit("2"), "Asterisk", IntLit("3")))))>>

C1_Witness ==
    /\ status = "ok"
    /\ tokens = Lex(<<V("x"), K("Plus"), V("y"), K("Asterisk"), V("z"),
                      K("SemiColon")>>)
    /\ ast = <<ExprStmt(Bin(Var("x"), "Plus", Bin(Var("y"), "Asterisk", Var("z"))))>>

\* the k-th operator of a chain of op1 and op2 by turns
ChainOp(op1, op2, k) == IF k % 2 = 1 THEN op1 ELSE op2

RECURSIVE LeftNest(_, _, _)
\* ((a op1 b) op2 c) ... : the first k operators of the chain, grouped left
LeftNest(op1, op2, k) ==
    IF k = 0 THEN Var(OperandNames[1])
    ELSE Bin(LeftNest(op1, op2, k - 1), ChainOp(op1, op2, k),
             Var(OperandNames[k + 1]))

RECURSIVE RightNest(_, _, _, _)
\* a op1 (b op2 (c ...)) : the operators k..n of the chain, grouped right
RightNest(op1, op2, k, n) ==
    IF k > n THEN Var(OperandNames[n + 1])
    ELSE Bin(Var(OperandNames[k]), ChainOp(op1, op2, k),
             RightNest(op1, op2, k + 1, n))

\* the number of operators of a chain input
ChainLength == (Len(tokens) - 4) \div 2

\* the input is a chain  a op1 b op2 c op1 d ... ;  of one precedence level
IsChainInput ==
    /\ Len(tokens) >= 8
    /\ Len(tokens) % 2 = 0
    /\ tokens[3].kind \in BinaryOps
    /\ tokens[5].kind \in BinaryOps
    /\ Precedence_infix(tokens[3].kind) = Precedence_infix(tokens[5].kind)
    /\ tokens = Lex(Chain(tokens[3].kind, tokens[5].kind, ChainLength))

\* C2: a chain of operators of one precedence level groups to the left when
\* the level is left-associative and to the right when it is
\* right-associative.
C2_AssociativityGroups ==
    (Done /\ IsChainInput) =>
        LET op1 == tokens[3].kind
            op2 == tokens[5].kind
            assoc == associativity(Precedence_infix(op1))
        IN
        /\ assoc = Some("Left") =>
             /\ status = "ok"
             /\ ast = <<ExprStmt(LeftNest(op1, op2, ChainLength))>>
        /\ assoc = Some("Right") =>
             /\ status = "ok"
             /\ ast = <<ExprStmt(RightNest(op1, op2, 1, ChainLength))>>

C2_Witness ==
    /\ status = "ok"
    /\ tokens = Lex(Chain("Minus", "Plus", 3))
    /\ ast = <<ExprStmt(Bin(Bin(Bin(Var("a"), "Minus", Var("b")), "Plus", Var("c")),
                            "Minus", Var("d")))>>

\* the operators of the two non-associative levels of C3
NonAssociativeLevel(op) == op \in EqualityOps \/ op \in ComparisonOps
SameNonAssociativeLevel(op1, op2) ==
    \/ op1 \in EqualityOps /\ op2 \in EqualityOps
    \/ op1 \in ComparisonOps /\ op2 \in ComparisonOps

\* the input is  ( x op1 y ) op2 z ;
IsLeftParenthesisedInput ==
    /\ Len(tokens) = 10
    /\ tokens[2].kind = "LeftParen"
    /\ tokens[3] = Token("Variable", "x", 3)
    /\ tokens[4].kind \in BinaryOps
    /\ tokens[5] = Token("Variable", "y", 5)
    /\ tokens[6].kind = "RightParen"
    /\ tokens[7].kind \in BinaryOps
    /\ tokens[8] = Token("Variable", "z", 8)
    /\ tokens[9].kind = "SemiColon"

\* the input is  x op1 ( y op2 z ) ;
IsRightParenthesisedInput ==
    /\ Len(tokens) = 10
    /\ tokens[2] = Token("Variable", "x", 2)
    /\ tokens[3].kind \in BinaryOps
    /\ tokens[4].kind = "LeftParen"
    /\ tokens[5] = Token("Variable", "y", 5)
    /\ tokens[6].kind \in BinaryOps
    /\ tokens[7] = Token("Variable", "z", 7)
    /\ tokens[8].kind = "RightParen"
    /\ tokens[9].kind = "SemiColon"

\* C3: two equality operators, or two comparison operators, in a row are an
\* error at the second operator, UnexpectedToken(its spelling, its span),
\* and no tree is built; with parentheses on either side the expression
\* parses, and the tree follows the parentheses.
C3_NonAssociativeChain ==
    /\ (Done /\ IsTwoOperatorInput
             /\ SameNonAssociativeLevel(tokens[3].kind, tokens[5].kind)) =>
         /\ status = "err"
         /\ error = <<"UnexpectedToken", to_string(tokens[5]), tokens[5].span>>
         /\ ast = <<>>
    /\ (Done /\ IsLeftParenthesisedInput
             /\ SameNonAssociativeLevel(tokens[4].kind, tokens[7].kind)) =>
         /\ status = "ok"
         /\ ast = <<ExprStmt(Bin(Bin(Var("x"), tokens[4].kind, Var("y")),
                                 tokens[7].kind, Var("z")))>>
    /\ (Done /\ IsRightParenthesisedInput
             /\ SameNonAssociativeLevel(tokens[3].kind, tokens[6].kind)) =>
         /\ status = "ok"
         /\ ast = <<ExprStmt(Bin(Var("x"), tokens[3].kind,
                                 Bin(Var("y"), tokens[6].kind, Var("z"))))>>

C3_Witness ==
    /\ status = "err"
    /\ tokens = Lex(<<V("x"), K("DoubleEquals"), V("y"), K("BangEquals"), V("z"),
                      K("SemiColon")>>)
    /\ error = <<"UnexpectedToken", "!=", 5>>

----------------------------------------------------------------------------
(* Errors of sub-parsers *)

\* the cursor at which the statement that starts at p parses its first
\* expression: after `return` or `echo`, after `if (` or `switch (`, at p
\* itself for an expression statement; 0 for the other statements
FirstExpression(p) ==
    LET kind == tokens[p].kind IN
    CASE kind \in {"Eof", "OpenTag", "CloseTag", "SemiColon", "LeftBrace", "Try"}
           \/ kind \in CommentKinds -> 0
      [] kind = "Return" -> IF tokens[p + 1].kind = "SemiColon" THEN 0 ELSE p + 1
      [] kind = "Echo" -> p + 1
      [] kind \in {"If", "Switch"} ->
           IF tokens[p + 1].kind = "LeftParen" THEN p + 2 ELSE 0
      [] OTHER -> p

\* C4: when the expression parser returns an error to a statement, parse
\* returns that error (and no tree), whatever the statement is: an
\* expression statement, echo, return, the head of an if or of a switch.
C4_ErrorsPropagate ==
    [][ (/\ status = "running"
         /\ FirstExpression(pos) # 0
         /\ ~expression(tokens, FirstExpression(pos), Precedence_Lowest).ok)
        => (/\ status' = "err"
            /\ error' = expression(tokens, FirstExpression(pos), Precedence_Lowest).v
            /\ ast' = <<>>) ]_vars

----------------------------------------------------------------------------
(* Walks over the statements and expressions of a tree *)

RECURSIVE BodiesOf(_, _)
\* the bodies of a list of ElseIf, Case or Catch parts, one after another;
\* the body is the field at `field`
BodiesOf(parts, field) ==
    IF Len(parts) = 0 THEN <<>>
    ELSE Head(parts)[field] \o BodiesOf(Tail(parts), field)

\* the value of an Option that holds a list, or the empty list
ListOf(option) == IF option = None THEN <<>> ELSE option[2]

\* the statements written directly inside statement s
InnerStatements(s) ==
    CASE s[1] = "Block" -> s[2]
      [] s[1] = "If" -> s[3] \o BodiesOf(s[4], 3) \o ListOf(s[5])
      [] s[1] = "Switch" -> BodiesOf(s[3], 3)
      [] s[1] = "Try" -> s[2] \o BodiesOf(s[3], 4) \o ListOf(s[4])
      [] OTHER -> <<>>

RECURSIVE StatementsIn(_)
\* every statement of a list of statements, the nested ones included
StatementsIn(body) ==
    IF Len(body) = 0 THEN <<>>
    ELSE <<Head(body)>> \o StatementsIn(InnerStatements(Head(body)))
                        \o StatementsIn(Tail(body))

\* the value of an Option that holds one node, as a list
OneOf(option) == IF option = None THEN <<>> ELSE <<option[2]>>

RECURSIVE PartsOf(_)
\* the expressions of a list of MatchArm or ArrayItem parts
PartsOf(parts) ==
    IF Len(parts) = 0 THEN <<>>
    ELSE LET part == Head(parts) IN
         (IF part[1] = "MatchArm" THEN part[2] \o <<part[3]>>
          ELSE OneOf(part[2]) \o <<part[3]>>)
         \o PartsOf(Tail(parts))

\* the expressions written directly inside expression e
InnerExpressions(e) ==
    CASE e[1] \in {"Throw", "Clone", "Print", "BooleanNot", "Negate", "UnaryPlus",
                   "BitwiseNot", "PreDecrement", "PreIncrement", "ErrorSuppress",
                   "Increment", "Decrement", "DynamicVariable", "ConstFetch"} ->
           <<e[2]>>
      [] e[1] = "Cast" -> <<e[3]>>
      [] e[1] = "Infix" -> <<e[2], e[4]>>
      [] e[1] = "Coalesce" -> <<e[2], e[3]>>
      [] e[1] = "Ternary" -> <<e[2]>> \o OneOf(e[3]) \o <<e[4]>>
      [] e[1] = "Match" ->
           <<e[2]>> \o (IF e[3] = None THEN <<>> ELSE <<e[3][2][2]>>) \o PartsOf(e[4])
      [] e[1] = "Array" -> PartsOf(e[2])
      [] e[1] \in {"Call", "New"} -> <<e[2]>> \o e[3]
      [] e[1] = "ArrayIndex" -> <<e[2]>> \o OneOf(e[3])
      [] e[1] \in {"StaticPropertyFetch", "PropertyFetch", "NullsafePropertyFetch"} ->
           <<e[2], e[3]>>
      [] e[1] \in {"StaticMethodCall", "MethodCall", "NullsafeMethodCall"} ->
           <<e[2], e[3]>> \o e[4]
      [] OTHER -> <<>>

RECURSIVE ExpressionsIn(_)
\* every expression of a list of expressions, the nested ones included
ExpressionsIn(es) ==
    IF Len(es) = 0 THEN <<>>
    ELSE <<Head(es)>> \o ExpressionsIn(InnerExpressions(Head(es)))
                      \o ExpressionsIn(Tail(es))

RECURSIVE ConditionsOf(_)
\* the conditions of a list of ElseIf parts, of Case parts (an Option), or
\* the variables of Catch parts (an Option)
ConditionsOf(parts) ==
    IF Len(parts) = 0 THEN <<>>
    ELSE LET part == Head(parts) IN
         (CASE part[1] = "ElseIf" -> <<part[2]>>
            [] part[1] = "Case" -> OneOf(part[2])
            [] part[1] = "Catch" -> OneOf(part[3]))
         \o ConditionsOf(Tail(parts))

\* the expressions written directly inside statement s
OwnExpressions(s) ==
    CASE s[1] = "Expression" -> <<s[2]>>
      [] s[1] = "Echo" -> s[2]
      [] s[1] = "Return" -> OneOf(s[2])
      [] s[1] = "If" -> <<s[2]>> \o ConditionsOf(s[4])
      [] s[1] = "Switch" -> <<s[2]>> \o ConditionsOf(s[3])
      [] s[1] = "Try" -> ConditionsOf(s[3])
      [] OTHER -> <<>>

RECURSIVE OwnExpressionsOf(_)
OwnExpressionsOf(statements) ==
    IF Len(statements) = 0 THEN <<>>
    ELSE OwnExpressions(Head(statements)) \o OwnExpressionsOf(Tail(statements))

\* every expression of a program
AllExpressions(program) == ExpressionsIn(OwnExpressionsOf(StatementsIn(program)))

\* the tree of one of the bodies of the generated inputs
BodyTree(src) ==
    IF src = EchoOne THEN <<Statement_Echo(<<IntLit("1")>>)>>
    ELSE IF src = OneStatement THEN <<ExprStmt(Var("a"))>>
    ELSE <<>>

----------------------------------------------------------------------------
(* try statements *)

BareTry(body) == TrySrc(body, <<>>, <<>>, <<>>)

\* C5: no Try statement of a parsed tree lacks both catches and finally; a
\* try with only a finally block parses, with no catches; a try with
\* neither is the error TryWithoutCatchOrFinally at the span of `try`.
C5_TryHasCatchOrFinally ==
    /\ \A i \in DOMAIN StatementsIn(ast) :
         LET s == StatementsIn(ast)[i] IN
         s[1] = "Try" => (Len(s[3]) > 0 \/ s[4] # None)
    /\ (Done /\ tokens[2].kind = "Try") =>
         \A body \in Bodies, trailer \in {<<>>, OneStatement} :
           /\ tokens = Lex(BareTry(body) \o trailer) =>
                /\ status = "err"
                /\ error = <<"TryWithoutCatchOrFinally", 2>>
                /\ ast = <<>>
           /\ \A finally \in Bodies :
                tokens = Lex(TrySrc(body, <<>>, <<K("Finally")>> \o Braces(finally),
                                    trailer)) =>
                  /\ status = "ok"
                  /\ ast = <<Statement_Try(BodyTree(body), <<>>, Some(BodyTree(finally)))>>
                           \o BodyTree(trailer)
    /\ (Done /\ tokens = Lex(OneStatement \o BareTry(<<>>))) =>
         /\ status = "err"
         /\ error = <<"TryWithoutCatchOrFinally", 4>>
    /\ (Done /\ tokens = Lex(TrySrc(BareTry(<<>>), <<>>,
                                    <<K("Finally")>> \o Braces(<<>>), <<>>))) =>
         /\ status = "err"
         /\ error = <<"TryWithoutCatchOrFinally", 4>>
    /\ (Done /\ tokens = Lex(<<K("If")>> \o Parens(<<V("c")>>)
                                         \o Braces(BareTry(EchoOne)))) =>
         /\ status = "err"
         /\ error = <<"TryWithoutCatchOrFinally", 7>>

C5_Witness ==
    /\ tokens = Lex(BareTry(EchoOne) \o OneStatement)
    /\ status = "err"
    /\ error = <<"TryWithoutCatchOrFinally", 2>>

----------------------------------------------------------------------------
(* match expressions *)

MatchTokens == { Lex(src) : src \in MatchInputs }

\* where the `default` arms of the input start
DefaultPositions == { i \in DOMAIN tokens : tokens[i].kind = "Default" }

\* the second of them
SecondDefault ==
    CHOOSE i \in DefaultPositions :
        Cardinality({ j \in DefaultPositions : j < i }) = 1

\* the arms of the input that are not `default` arms
OtherArms ==
    Cardinality({ i \in DOMAIN tokens : tokens[i].kind = "DoubleArrow" })
    - Cardinality(DefaultPositions)

\* the Match node of the tree of a generated input
MatchNode ==
    CASE tokens[2].kind = "Match" -> ast[1][2]
      [] tokens[2].kind = "Variable" -> ast[1][2][4]
      [] tokens[2].kind = "Echo" -> ast[1][2][1]
      [] tokens[2].kind = "Return" -> ast[1][2][2]

\* where the match expression of a generated input starts
MatchStart == CHOOSE i \in DOMAIN tokens : tokens[i].kind = "Match"

----------------------------------------------------------------------------
(* array literals *)

\* C7: no element of an array literal of a parsed tree, of either spelling,
\* is both unpacked and keyed.
C7_SpreadHasNoKey ==
    \A i \in DOMAIN AllExpressions(ast) :
        LET e == AllExpressions(ast)[i] IN
        e[1] = "Array" =>
            \A j \in DOMAIN e[2] : e[2][j][4] => e[2][j][2] = None

----------------------------------------------------------------------------
(* if statements *)

PureIfTokens == { Lex(src) : src \in PureIfInputs }
MixedIfTokens == { Lex(src) : src \in MixedIfInputs }

\* C8: an if statement that starts in the brace form and goes on with
\* `elseif (..):` or `else:`, or starts in the colon form and goes on with
\* `elseif (..) {` or `else {`, is an error, and no tree is returned; the
\* same heads with continuations of their own form parse to one If.
C8_NoMixedIf ==
    /\ (Done /\ tokens \in MixedIfTokens) =>
         /\ status = "err"
         /\ error # None
         /\ ast = <<>>
    /\ (Done /\ tokens \in PureIfTokens) =>
         /\ status = "ok"
         /\ Len(ast) = 1
         /\ ast[1][1] = "If"

C8_Witness ==
    /\ tokens = Lex(<<K("If")>> \o Parens(<<V("a")>>) \o <<K("Colon")>> \o EchoOne
                    \o BraceElse)
    /\ status = "err"
    /\ error = <<"ExpectedOneOf", <<":">>, 11>>

\* where the first token of a kind is in the input
FirstOf(kind) ==
    CHOOSE i \in DOMAIN tokens :
        /\ tokens[i].kind = kind
        /\ \A j \in 1..(i - 1) : tokens[j].kind # kind

\* C9 as the specification states it: for
\* if ($a) { echo 1; } elseif ($b): echo 2; endif;  the error says that `}`
\* was expected, at the span of `elseif`.
C9_ExpectedRightBraceAtElseIf ==
    (Done /\ tokens = Lex(MixedIfExample)) =>
        /\ status = "err"
        /\ error = <<"ExpectedOneOf", <<"}">>, FirstOf("ElseIf")>>

\* C9: for  if ($a) { echo 1; } elseif ($b): echo 2; endif;  the error says
\* that `{` was expected, at the span of the `:` that follows `elseif ($b)`,
\* and no tree is returned.
C9_ExpectedLeftBraceAtColon ==
    (Done /\ tokens = Lex(MixedIfExample)) =>
        /\ status = "err"
        /\ error = <<"ExpectedOneOf", <<"{">>, FirstOf("Colon")>>
        /\ FirstOf("Colon") = FirstOf("ElseIf") + 4
        /\ ast = <<>>

C9_Witness ==
    /\ tokens = Lex(MixedIfExample)
    /\ status = "err"
    /\ pos = 15

----------------------------------------------------------------------------
(* switch statements *)

SwitchTokens == { Lex(src) : src \in SwitchInputs }

\* the tree of a generated switch statement: each arm with the statements
\* written after its head
SwitchTree(arms) ==
    Statement_Switch(Var("e"),
        [i \in 1..Len(arms) |->
            Case(IF arms[i].head = "case" THEN Some(IntLit("1")) ELSE None,
                 BodyTree(arms[i].body))])

\* C10: a switch statement of either form parses, each arm taking the
\* statements up to the next `case`, the next `default` or the end of the
\* switch (`}` or `endswitch`), with `:` or `;` after the head of an arm.
C10_SwitchArmBodies ==
    (Done /\ tokens \in SwitchTokens) =>
        \A form \in SwitchForms, arms \in SwitchArmSeqs :
            tokens = Lex(SwitchSrc(form, arms)) =>
                /\ status = "ok"
                /\ ast = <<SwitchTree(arms)>>

\* the same for the brace form alone
BraceSwitchArmBodies ==
    (Done /\ tokens \in SwitchTokens) =>
        \A arms \in SwitchArmSeqs :
            tokens = Lex(SwitchSrc("brace", arms)) =>
                /\ status = "ok"
                /\ ast = <<SwitchTree(arms)>>

----------------------------------------------------------------------------
(* `function` at statement position *)

\* what follows `function` makes it a declaration: an identifier, `null`,
\* or `&` and an identifier
DeclarationMids ==
    { <<Id("name")>>, <<K("Null")>>, <<K("Ampersand"), Id("name")>> }

ParamTree(params) == [i \in 1..Len(params) |-> params[i][2]]

\* the declaration `function mid (params) { body }`
FunctionTree(mid, params, body) ==
    Statement_Function(IF mid[Len(mid)] = K("Null") THEN "null" ELSE "name",
                       ParamTree(params), BodyTree(body),
                       mid[1] = K("Ampersand"))

\* the anonymous function `function mid (params) { body }`
ClosureTree(mid, params, body) ==
    Expression_Closure(ParamTree(params), <<>>, BodyTree(body), FALSE,
                       mid = <<K("Ampersand")>>)

\* what parsing  function mid (params) { body } end  must give
FunctionOutcome(mid, params, body, end) ==
    IF mid \in DeclarationMids
    THEN /\ status = "ok"
         /\ ast = <<FunctionTree(mid, params, body)>>
                  \o (IF end = <<>> THEN <<>> ELSE <<Statement_Noop>>)
    ELSE IF mid = <<K("Ampersand"), K("Null")>>
    THEN /\ status = "err"
         /\ error = ParseError_ExpectedOneOf(<<"(">>, 4)
    ELSE IF end = <<>>
    THEN /\ status = "err"
         /\ error = ParseError_ExpectedOneOf(<<";">>, Len(tokens))
    ELSE /\ status = "ok"
         /\ ast = <<ExprStmt(ClosureTree(mid, params, body))>>

\* C11: at statement position `function` starts a declaration exactly when
\* an identifier, `null`, or `&` and an identifier follows it; in every
\* other case the statement is an expression statement, closed by `;`,
\* whose expression is an anonymous function.  The example of the claim
\* gives a by-reference declaration and then an anonymous function.
C11_FunctionDispatch ==
    Done =>
      /\ \A mid \in FunctionMids, params \in ParamSources, body \in Bodies,
            end \in {<<>>, <<K("SemiColon")>>} :
            tokens = Lex(FunctionSrc(mid, params, body, end))
            => FunctionOutcome(mid, params, body, end)
      /\ \A mid \in FunctionMids :
            tokens = Lex(Braces(FunctionSrc(mid, <<>>, <<>>, <<K("SemiColon")>>)))
            => IF mid \in DeclarationMids
               THEN /\ status = "ok"
                    /\ ast = <<Statement_Block(<<FunctionTree(mid, <<>>, <<>>),
                                                 Statement_Noop>>)>>
               ELSE IF mid = <<K("Ampersand"), K("Null")>> THEN status = "err"
               ELSE /\ status = "ok"
                    /\ ast = <<Statement_Block(
                                 <<ExprStmt(ClosureTree(mid, <<>>, <<>>))>>)>>
      /\ tokens = Lex(FunctionExample)
         => /\ status = "ok"
            /\ ast = << Statement_Function("name", <<>>, <<>>, TRUE),
                        ExprStmt(Expression_Closure(<<>>, <<>>, <<>>, FALSE, FALSE)) >>

C11_Witness ==
    /\ tokens = Lex(FunctionExample)
    /\ status = "ok"
    /\ Len(ast) = 2
    /\ ast[1][1] = "Function"
    /\ ast[2] = ExprStmt(Expression_Closure(<<>>, <<>>, <<>>, FALSE, FALSE))

----------------------------------------------------------------------------
(* `static` *)

StaticVarsTree(items) ==
    Statement_Static(
        [i \in 1..Len(items) |->
            StaticVar(Var("s"),
                      IF items[i] = "bare" THEN None ELSE Some(IntLit("1")))])

StaticClosureTree == Expression_Closure(<<>>, <<>>, <<>>, TRUE, FALSE)
StaticArrowTree == Expression_ArrowFunction(<<>>, IntLit("1"), FALSE, TRUE)

StaticScopeTree(member) ==
    IF member = <<Id("x")>> THEN Expression_ConstFetch(Expression_Static, "x")
    ELSE IF member = <<V("p")>>
    THEN Expression_StaticPropertyFetch(Expression_Static, Var("p"))
    ELSE Expression_StaticMethodCall(Expression_Static,
                                     Expression_Identifier("f"), <<>>)

\* C12: `static` is read by the one token after it.  Before a variable, at
\* statement position, it gives Statement::Static with one StaticVar per
\* variable; before `function` or `fn` it starts an anonymous or arrow
\* function; before `::` it is Expression::Static, the target of the scope
\* resolution; before any other token parsing fails.
C12_StaticByNextToken ==
    Done =>
      /\ \A items \in SeqsUpTo(StaticItems, MaxArms) :
            tokens = Lex(StaticVarsSrc(items))
            => status = "ok" /\ ast = <<StaticVarsTree(items)>>
      /\ tokens = Lex(StaticClosureSrc)
         => status = "ok" /\ ast = <<ExprStmt(StaticClosureTree)>>
      /\ tokens = Lex(StaticArrowSrc)
         => status = "ok" /\ ast = <<ExprStmt(StaticArrowTree)>>
      /\ tokens = Lex(<<V("r"), K("Equals")>> \o StaticClosureSrc)
         => status = "ok"
            /\ ast = <<ExprStmt(Bin(Var("r"), "Equals", StaticClosureTree))>>
      /\ tokens = Lex(<<V("r"), K("Equals")>> \o StaticArrowSrc)
         => status = "ok"
            /\ ast = <<ExprStmt(Bin(Var("r"), "Equals", StaticArrowTree))>>
      /\ \A member \in StaticMembers :
            tokens = Lex(StaticScopeSrc(member))
            => status = "ok" /\ ast = <<ExprStmt(StaticScopeTree(member))>>
      /\ \A follower \in StaticOtherFollowers :
            /\ tokens = Lex(StaticOtherSrc(follower))
               => status = "err"
                  /\ error = ParseError_UnexpectedToken("static", 2)
            /\ tokens = Lex(Braces(StaticOtherSrc(follower)))
               => status = "err"
                  /\ error = ParseError_UnexpectedToken("static", 3)
      /\ tokens = Lex(<<K("Static")>>)
         => status = "err" /\ error = ParseError_UnexpectedToken("static", 2)
      /\ tokens = Lex(<<K("Echo")>> \o StaticVarsSrc(<<"bare">>))
         => status = "err" /\ error = ParseError_UnexpectedToken("static", 3)

C12_Witness ==
    /\ tokens = Lex(StaticVarsSrc(<<"default", "bare">>))
    /\ status = "ok"
    /\ ast = << Statement_Static(<< StaticVar(Var("s"), Some(IntLit("1"))),
                                    StaticVar(Var("s"), None) >>) >>

----------------------------------------------------------------------------
(* `new` *)

ArgTree(arg) == IF arg[1] = "Variable" THEN Var(arg[2]) ELSE IntLit(arg[2])

\* new T(args): the target is T, the arguments are those of the New node
NewTree(args) ==
    Expression_New(Expression_Identifier("T"),
                   [i \in 1..Len(args) |-> ArgTree(args[i])])

\* `new class`, with or without attributes and arguments, is an anonymous
\* class
AnonymousClassParses ==
    \A attrs \in {<<>>, AttributeGroup},
       args \in {<<>>, Parens(<<>>), Parens(<<V("a")>>)} :
       (Done /\ tokens = Lex(NewClassSrc(attrs, args)))
       => /\ status = "ok"
          /\ ast = <<ExprStmt(Expression_New(
                       Expression_AnonymousClass(<<>>),
                       IF args = Parens(<<V("a")>>) THEN <<Var("a")>> ELSE <<>>))>>

\* `new T` without parentheses has no arguments
NewWithoutArguments ==
    (Done /\ tokens = Lex(<<K("New"), Id("T"), K("SemiColon")>>))
    => status = "ok" /\ ast = <<ExprStmt(NewTree(<<>>))>>

----------------------------------------------------------------------------
(* the member after `::` *)

ScopeTargetTree(target) ==
    IF target = <<Id("A")>> THEN Expression_Identifier("A")
    ELSE IF target = <<V("o")>> THEN Var("o")
    ELSE Expression_Static

NameOf(member) ==
    IF member = <<Id("x")>> THEN "x"
    ELSE IF member = <<K("Class")>> THEN "class"
    ELSE "echo"

MemberTree(member) ==
    IF member \in NameMembers THEN Expression_Identifier(NameOf(member))
    ELSE IF member = <<V("p")>> THEN Var("p")
    ELSE IF member \in VariableMembers THEN Expression_DynamicVariable(Var("p"))
    ELSE IF member = Braces(<<V("m")>>) THEN Expression_DynamicVariable(Var("m"))
    ELSE Expression_DynamicVariable(Bin(IntLit("1"), "Plus", Var("m")))

CallTree(call) == IF call = Parens(<<V("a")>>) THEN <<Var("a")>> ELSE <<>>

\* what parsing  target :: member call ;  must give
ScopeOutcome(target, member, call) ==
    LET lhs == ScopeTargetTree(target)
        at == Len(target) + 3
    IN
    IF member \in OtherMembers
    THEN /\ status = "err"
         /\ error = ParseError_ExpectedOneOf(<<"{", "$", "an identifier">>, at)
    ELSE IF call # <<>>
    THEN /\ status = "ok"
         /\ ast = <<ExprStmt(Expression_StaticMethodCall(
                      lhs, MemberTree(member), CallTree(call)))>>
    ELSE IF member \in BraceMembers
    THEN /\ status = "err"
         /\ error = ParseError_ExpectedOneOf(<<"(">>, at + Len(member))
    ELSE IF member \in NameMembers
    THEN /\ status = "ok"
         /\ ast = <<ExprStmt(Expression_ConstFetch(lhs, NameOf(member)))>>
    ELSE /\ status = "ok"
         /\ ast = <<ExprStmt(Expression_StaticPropertyFetch(
                      lhs, MemberTree(member)))>>

\* C14: after `::`, `{ expr }` is always a static method call, whose
\* argument list must follow; an identifier, `class` or a reserved word not
\* followed by `(` is a constant fetch; an identifier, a variable or a
\* dynamic variable followed by `(` is a static method call; a variable or a
\* dynamic variable not followed by `(` is a static property fetch; any
\* other token after `::` is a parse error.
C14_ScopeMember ==
    Done =>
      \A target \in ScopeTargets,
         member \in NameMembers \cup VariableMembers \cup BraceMembers
                    \cup OtherMembers,
         call \in CallTails :
         tokens = Lex(ScopeSrc(target, member, call))
         => ScopeOutcome(target, member, call)

C14_Witness ==
    /\ tokens = Lex(ScopeSrc(<<Id("A")>>, Braces(<<V("m")>>), Parens(<<V("a")>>)))
    /\ status = "ok"
    /\ ast = <<ExprStmt(Expression_StaticMethodCall(
                 Expression_Identifier("A"),
                 Expression_DynamicVariable(Var("m")), <<Var("a")>>))>>

\* the statement a top-level-only source parses to
TopLevelTree(src) ==
    CASE src = NamespaceSrc -> Statement_Namespace("N", <<>>)
      [] src = NamespaceBlockSrc ->
           Statement_Namespace("N", <<Statement_Use(<<Use("A", None)>>, "Normal")>>)
      [] src = UseSrc -> Statement_Use(<<Use("A", None)>>, "Normal")
      [] src = UseAliasSrc ->
           Statement_Use(<<Use("A", Some("B")), Use("C", None)>>, "Normal")
      [] src = UseFunctionSrc -> Statement_Use(<<Use("f", None)>>, "Function")
      [] src = UseConstSrc -> Statement_Use(<<Use("C", None)>>, "Const")
      [] src = GroupUseSrc ->
           Statement_GroupUse("A", "Normal",
                              <<Use("b", None), Use("c", Some("d"))>>)
      [] src = ConstSrc -> Statement_Constant(<<Constant("X", IntLit("1"))>>)
      [] src = ConstListSrc ->
           Statement_Constant(<<Constant("X", IntLit("1")),
                                Constant("Y", IntLit("2"))>>)
      [] src = HaltCompilerSrc -> Statement_HaltCompiler(None)
      [] src = HaltCompilerHtmlSrc -> Statement_HaltCompiler(Some("h"))

TopLevelOnlyKinds == {"Namespace", "Use", "Const", "HaltCompiler"}
TopLevelOnlyNodes ==
    {"Namespace", "Use", "GroupUse", "Constant", "HaltCompiler"}
FirstTopLevelOnly(toks) ==
    CHOOSE p \in 1..Len(toks) :
        /\ toks[p].kind \in TopLevelOnlyKinds
        /\ \A q \in 1..(p - 1) : toks[q].kind \notin TopLevelOnlyKinds

\* C15: namespace, use (plain, grouped, function and const), const and
\* __halt_compiler statements are parsed at the top level only:
\* Parser::top_level_statement yields their statement, Parser::statement
\* yields none of these statement kinds at any place of any input, and
\* fails with UnexpectedToken where one of the four tokens begins a
\* statement, so that a nested one makes parse fail at its first token.
C15_TopLevelOnly ==
    /\ \A src \in TopLevelOnlySources :
          /\ (Done /\ tokens = Lex(src)) =>
                (status = "ok" /\ ast = <<TopLevelTree(src)>>)
          /\ (Done /\ tokens = Lex(OneStatement \o src)) =>
                (status = "ok" /\ ast = <<ExprStmt(Var("a")), TopLevelTree(src)>>)
          /\ \A context \in NestingContexts :
                (Done /\ tokens = Lex(Nest(context, src))) =>
                    /\ status = "err"
                    /\ ast = <<>>
                    /\ error = ParseError_UnexpectedToken(
                                   to_string(tokens[FirstTopLevelOnly(tokens)]),
                                   tokens[FirstTopLevelOnly(tokens)].span)
    /\ pos = 1 =>
          \A p \in 1..Len(tokens) :
              /\ tokens[p].kind \in TopLevelOnlyKinds =>
                    /\ ~statement(tokens, p).ok
                    /\ statement(tokens, p).v =
                          ParseError_UnexpectedToken(to_string(tokens[p]),
                                                     tokens[p].span)
              /\ statement(tokens, p).ok =>
                    statement(tokens, p).v[1] \notin TopLevelOnlyNodes

C15_Witness ==
    /\ tokens = Lex(Nest("if", UseAliasSrc))
    /\ status = "err"
    /\ error = ParseError_UnexpectedToken("use", 7)
\* a code token: not an open tag, a close tag, a comment or the final Eof
IsCodeToken(t) == t.kind \notin ({"OpenTag", "CloseTag", "Eof"} \cup CommentKinds)
HasCodeToken(toks) == \E i \in 1..Len(toks) : IsCodeToken(toks[i])
HasInlineHtml(toks) == \E i \in 1..Len(toks) : toks[i].kind = "InlineHtml"

\* C16: when parse succeeds on a token vector without InlineHtml tokens,
\* the returned statement list is non-empty if and only if the vector
\* holds a code token; a lone `;` is one and yields Statement::Noop.
C16_NonEmptyIffCodeToken ==
    /\ (status = "ok" /\ ~HasInlineHtml(tokens)) =>
          (ast # <<>> <=> HasCodeToken(tokens))
    /\ (Done /\ tokens = Lex(<<K("SemiColon")>>)) =>
          (status = "ok" /\ ast = <<Statement_Noop>>)

C16_Witness ==
    /\ tokens = Lex(<<K("CloseTag"), K("SemiColon"), Cm>>)
    /\ status = "ok"
    /\ ast = <<Statement_Noop>>

C16_WitnessEmpty ==
    /\ tokens = Lex(<<K("CloseTag"), Cm, Cm>>)
    /\ status = "ok"
    /\ ast = <<>>
RECURSIVE CountKind(_, _)
\* the number of tokens of a kind in a token vector
CountKind(toks, kind) ==
    IF Len(toks) = 0 THEN 0
    ELSE (IF Head(toks).kind = kind THEN 1 ELSE 0) + CountKind(Tail(toks), kind)

\* the input is a string of tags, inline HTML, comments, `;` and `$a`
IsTagInput ==
    \A i \in 2..(Len(tokens) - 1) :
        <<tokens[i].kind, tokens[i].val>> \in TagAlphabet

\* open and close tags between the top-level statements contribute no
\* statement: without inline HTML there is one statement per `;`
TagsContributeNoStatement ==
    (status = "ok" /\ IsTagInput /\ ~HasInlineHtml(tokens)) =>
        Len(ast) = CountKind(tokens, "SemiColon")

\* C17: at the top level parse skips open tags, close tags and inline HTML:
\* none of them contributes a statement to the returned program, so a
\* successful parse of tags, inline HTML, comments, `;` and `$a` returns
\* one statement per `;` and no Statement::InlineHtml.
C17_TagsAndInlineHtmlSkipped ==
    (status = "ok" /\ IsTagInput) =>
        /\ Len(ast) = CountKind(tokens, "SemiColon")
        /\ \A i \in 1..Len(ast) : ast[i][1] # "InlineHtml"

\* the inline HTML after `$a; ?>` becomes a statement of the program
InlineHtmlIsPushed ==
    /\ tokens = Lex(<<V("a"), K("SemiColon"), K("CloseTag"), Html>>)
    /\ status = "ok"
    /\ ast = <<ExprStmt(Var("a")), Statement_InlineHtml("h")>>
ItemNodes == {"Class", "Interface", "Trait", "Enum", "Function"}
ItemExpressionNodes == {"Closure", "ArrowFunction"}

\* the error of the claim, at the token that follows n attribute groups
\* written after pre
AttributeError(pre, n) ==
    /\ status = "err"
    /\ ast = <<>>
    /\ error = ParseError_ExpectedItemDefinitionAfterAttributes(
                   1 + Len(pre) + 3 * n + 1)

\* the expression written after pre in the one statement s
ExpressionAfter(pre, s) ==
    CASE pre = <<K("Echo")>> -> s[2][1]
      [] pre = <<K("Return")>> -> s[2][2]
      [] OTHER -> s[2][4]

\* attribute groups before an item definition are accepted
AttributedItemsParse ==
    \A n \in GroupCounts :
        /\ \A src \in StatementItems :
              (Done /\ tokens = Lex(AttributeStatementSrc(n, src))) =>
                  (status = "ok" /\ Len(ast) = 1 /\ ast[1][1] \in ItemNodes)
        /\ \A pre \in ExpressionPrefixes, src \in ExpressionItems :
              (Done /\ tokens = Lex(AttributeExpressionSrc(pre, n, src))) =>
                  /\ status = "ok"
                  /\ Len(ast) = 1
                  /\ ExpressionAfter(pre, ast[1])[1] \in ItemExpressionNodes

\* Parser::statement on n attribute groups and src
statement_on(n, src) == statement(Lex(AttributeStatementSrc(n, src)), 2)

\* Parser::expression on n attribute groups and src, written after pre
expression_on(pre, n, src) ==
    expression(Lex(AttributeExpressionSrc(pre, n, src)), 2 + Len(pre),
               Precedence_Lowest)

\* the result of the claim: the error at the token that follows the groups
FollowerError(r, pre, n) ==
    /\ ~r.ok
    /\ r.v = ParseError_ExpectedItemDefinitionAfterAttributes(
                 1 + Len(pre) + 3 * n + 1)

\* attribute groups before anything else, `function` without a declaration
\* head apart, give the error of the claim; parse returns it, except after
\* `return`, where the error of the expression is dropped
OtherFollowersFail ==
    \A n \in GroupCounts :
        /\ \A src \in StatementOthers \ FunctionOthers :
              /\ (Done /\ tokens = Lex(AttributeStatementSrc(n, src))) =>
                    AttributeError(<<>>, n)
              /\ (Done /\ tokens = Lex(AttributeStatementSrc(n, src))) =>
                    FollowerError(statement_on(n, src), <<>>, n)
        /\ \A pre \in ExpressionPrefixes, src \in ExpressionOthers :
              /\ (Done /\ tokens = Lex(AttributeExpressionSrc(pre, n, src))
                        /\ pre # <<K("Return")>>) =>
                    AttributeError(pre, n)
              /\ (Done /\ tokens = Lex(AttributeExpressionSrc(pre, n, src))) =>
                    FollowerError(expression_on(pre, n, src), pre, n)

\* C18: after one or more attribute groups the next token must start an
\* item definition: a class, interface, trait or enum or a function
\* declaration at statement position, an anonymous or arrow function
\* (static or not) at expression position.  For any other follower,
\* `function` without a declaration head at statement position included,
\* Parser::statement and Parser::expression return
\* ExpectedItemDefinitionAfterAttributes with the span of the follower and
\* produce nothing.
C18_ItemAfterAttributes ==
    /\ AttributedItemsParse
    /\ OtherFollowersFail
    /\ \A n \in GroupCounts, src \in FunctionOthers :
          (Done /\ tokens = Lex(AttributeStatementSrc(n, src))) =>
              /\ FollowerError(statement_on(n, src), <<>>, n)
              /\ AttributeError(<<>>, n)

\* after `return` the error of the claim is dropped with the expression
ReturnDropsTheError ==
    /\ tokens = Lex(AttributeExpressionSrc(<<K("Return")>>, 1, <<>>))
    /\ status = "ok"
    /\ ast = <<Statement_Return(None)>>

\* `#[A] function &() {};` is accepted as an expression statement
AttributedReferenceClosureParses ==
    /\ tokens = Lex(AttributeStatementSrc(1,
                     ClosureSrc(<<K("Ampersand")>>) \o <<K("SemiColon")>>))
    /\ status = "ok"
    /\ ast = <<ExprStmt(ClosureTree(<<K("Ampersand")>>, <<>>, <<>>))>>

\* `#[A] function () {};` is refused at `function`
AttributedClosureFails ==
    /\ tokens = Lex(AttributeStatementSrc(1, ClosureSrc(<<>>) \o <<K("SemiColon")>>))
    /\ status = "err"
    /\ error = ParseError_ExpectedItemDefinitionAfterAttributes(5)
\* the source spelling of some kinds without payload: the kinds the claim
\* names, and operators, punctuation and keywords
SourceSpelling ==
    [ DoubleColon |-> "::", Arrow |-> "->", At |-> "@",
      Eof |-> "[end of file]", InlineHtml |-> "InlineHtml",
      NullsafeArrow |-> "?->", Coalesce |-> "??", CoalesceEqual |-> "??=",
      Spaceship |-> "<=>", PowEquals |-> "**=", TripleEquals |-> "===",
      Plus |-> "+", SemiColon |-> ";", LeftBrace |-> "{", Comma |-> ",",
      Ellipsis |-> "...", Attribute |-> "#[", CloseTag |-> "?>",
      Function |-> "function", Class |-> "class", Namespace |-> "namespace",
      HaltCompiler |-> "__halt_compiler", Instanceof |-> "instanceof",
      LogicalXor |-> "xor", Static |-> "static" ]

\* identifier, literal, comment and StringPart kinds
RawPayloadKinds ==
    {"Identifier", "QualifiedIdentifier", "FullyQualifiedIdentifier",
     "LiteralInteger", "LiteralFloat", "LiteralString", "StringPart",
     "SingleLineComment", "MultiLineComment", "HashMarkComment",
     "DocumentComment"}

\* what the claim says Display writes for a token kind
ClaimedDisplay(t) ==
    CASE t.kind = "Variable" -> "$" \o t.val
      [] t.kind \in RawPayloadKinds -> t.val
      [] OTHER -> SourceSpelling[t.kind]

IsDisplayed(t) ==
    /\ fmt_value = <<"TokenKind", t>>
    /\ fmt_output # None

\* the kinds of the claim
ClaimedKinds == RawPayloadKinds \cup {"Variable"} \cup DOMAIN SourceSpelling

\* the kinds of SourceSpelling other than At print their spelling, the
\* payload kinds their payload, a variable `$` and its name
DisplayApartFromAt ==
    \A t \in FixedKindTokens \cup PayloadTokens :
        (IsDisplayed(t) /\ t.kind # "At" /\ t.kind \in ClaimedKinds)
            => fmt_output = Some(ClaimedDisplay(t))

\* C19: Display of a TokenKind is a fixed function of the kind: a kind
\* without payload prints its source spelling (`::`, `->`, `@` for At,
\* `[end of file]`, `InlineHtml` whatever the payload), an identifier,
\* literal, comment or StringPart kind prints its payload, and
\* Variable(name) prints `$` and the name.
C19_DisplayOfTokenKind ==
    \A t \in FixedKindTokens \cup PayloadTokens :
        (IsDisplayed(t) /\ t.kind \in ClaimedKinds)
            => fmt_output = Some(ClaimedDisplay(t))

\* At prints the word `at`
AtPrintsItsName ==
    /\ fmt_value = <<"TokenKind", Token("At", "", 0)>>
    /\ fmt_output = Some("at")

\* what the claim says Debug writes for one byte
ClaimedByte(b) ==
    CASE b = 0 -> <<Backslash, 48>>
      [] b = 10 -> <<Backslash, 110>>
      [] b = 13 -> <<Backslash, 114>>
      [] b = 9 -> <<Backslash, 116>>
      [] b \in (1..31) \cup {127} \cup (128..255) -> hex_escape(b)
      [] b \in 32..126 -> <<b>>

RECURSIVE ClaimedBytes(_)
ClaimedBytes(bytes) ==
    IF Len(bytes) = 0 THEN <<>>
    ELSE ClaimedByte(Head(bytes)) \o ClaimedBytes(Tail(bytes))

IsDebugged == fmt_value[1] = "ByteString" /\ fmt_output # None

\* the bytes that Debug writes as they are although they are control bytes
RawControlBytes == 26..31

\* byte strings without a byte of 0x1a-0x1f are written as the claim says
DebugApartFromRawControlBytes ==
    (IsDebugged /\ \A i \in 1..Len(fmt_value[2]) : fmt_value[2][i] \notin RawControlBytes)
        => fmt_output = Some(<<DoubleQuote>> \o ClaimedBytes(fmt_value[2])
                           \o <<DoubleQuote>>)

\* C20: Debug of a ByteString writes a double quote, each byte in order and
\* a double quote; NUL is written `\0`, newline, carriage return and tab
\* `\n`, `\r`, `\t`, every other control byte (0x01-0x1f, 0x7f) and
\* every byte from 0x80 `\xNN` in lowercase hexadecimal, and every
\* printable ASCII byte (0x20-0x7e) as itself.
C20_DebugOfByteString ==
    IsDebugged
        => fmt_output = Some(<<DoubleQuote>> \o ClaimedBytes(fmt_value[2])
                           \o <<DoubleQuote>>)

\* the byte 0x1a is written as it is
SubstituteByteIsRaw ==
    /\ fmt_value = <<"ByteString", <<26>>>>
    /\ fmt_output = Some(<<DoubleQuote, 26, DoubleQuote>>)

\* the strings of test_byte_string_debug are written as the test says
DebugTestStrings ==
    /\ (IsDebugged /\ fmt_value[2] = <<97, 98, 99>>)
          => fmt_output = Some(<<34, 97, 98, 99, 34>>)
    /\ (IsDebugged /\ fmt_value[2] = <<0, 10, 13, 9>>)
          => fmt_output = Some(<<34, 92, 48, 92, 110, 92, 114, 92, 116, 34>>)
    /\ (IsDebugged /\ fmt_value[2] = <<1, 16, 127, 255>>)
          => fmt_output = Some(<<34, 92, 120, 48, 49, 92, 120, 49, 48,
                               92, 120, 55, 102, 92, 120, 102, 102, 34>>)
\* the part a form of the generated strings must give; none for "empty"
PartTree(form) ==
    CASE form = "const" -> <<StringPart_Const("!")>>
      [] form = "empty" -> <<>>
      [] form = "brace" -> <<StringPart_Expr(Var("name"))>>
      [] form = "dollar_brace" -> <<StringPart_Expr(Var("var"))>>
      [] form = "dollar_brace_index" ->
           <<StringPart_Expr(<<"ArrayIndex", Var("var"), Some(IntLit("1"))>>)>>
      [] form = "dollar_brace_expression" ->
           <<StringPart_Expr(<<"DynamicVariable", Var("e")>>)>>
      [] form = "variable" -> <<StringPart_Expr(Var("v"))>>
      [] form = "variable_integer" ->
           <<StringPart_Expr(<<"ArrayIndex", Var("v"), Some(IntLit("0"))>>)>>
      [] form = "variable_negative" ->
           <<StringPart_Expr(<<"ArrayIndex", Var("v"),
                               Some(<<"Negate", IntLit("1")>>)>>)>>
      [] form = "variable_name" ->
           <<StringPart_Expr(<<"ArrayIndex", Var("v"),
                               Some(<<"LiteralString", "k">>)>>)>>
      [] form = "variable_variable" ->
           <<StringPart_Expr(<<"ArrayIndex", Var("v"), Some(Var("i"))>>)>>
      [] form = "variable_property" ->
           <<StringPart_Expr(<<"PropertyFetch", Var("v"), <<"Identifier", "p">>>>)>>
      [] form = "variable_nullsafe" ->
           <<StringPart_Expr(<<"NullsafePropertyFetch", Var("v"),
                               <<"Identifier", "p">>>>)>>

\* the parts of the string  first forms  in order
PartsTree(first, forms) ==
    (IF first = "" THEN <<>> ELSE <<StringPart_Const(first)>>)
    \o Flatten([i \in 1..Len(forms) |-> PartTree(forms[i])])

IsStringInput ==
    /\ Len(tokens) >= 4
    /\ tokens[2].kind = "Variable" /\ tokens[2].val = "s"
    /\ tokens[4].kind = "StringPart"

\* the example of the claim:  $s = "hello, {$name}!";
HelloExample == InterpolatedSrc("hello, ", <<"brace", "const">>)
HelloTree ==
    <<"InterpolatedString",
      <<StringPart_Const("hello, "), StringPart_Expr(Var("name")),
        StringPart_Const("!")>>>>

\* C21: an interpolated string gives Expression::InterpolatedString with
\* its parts in token order: one Const for each StringPart token that is
\* not empty, nothing for an empty one, one Expr for each embedded
\* `{$expr}`, `${..}` or `$var` form; the closing quote is stepped over
\* and ends the string.  `$s = "hello, {$name}!";` gives Const("hello, "),
\* Expr(Variable("name")), Const("!").
C21_InterpolatedParts ==
    (Done /\ IsStringInput) =>
        /\ \A first \in FirstParts, forms \in PartLists :
              tokens = Lex(InterpolatedSrc(first, forms)) =>
                  /\ status = "ok"
                  /\ ast = <<ExprStmt(Bin(Var("s"), "Equals",
                                <<"InterpolatedString", PartsTree(first, forms)>>))>>
        /\ tokens = Lex(HelloExample) =>
              ast = <<ExprStmt(Bin(Var("s"), "Equals", HelloTree))>>

C21_Witness ==
    /\ tokens = Lex(HelloExample)
    /\ status = "ok"
    /\ ast = <<ExprStmt(Bin(Var("s"), "Equals", HelloTree))>>
\* the source of the input, without the open tag and the end of file
SourceOf(toks) == [i \in 1..(Len(toks) - 2) |-> <<toks[i + 1].kind, toks[i + 1].val>>]

\* the input is  E ;  for an expression E without tags and comments, and
\* parse has given the one expression statement of E
IsOneExpression ==
    /\ status = "ok"
    /\ Len(ast) = 1
    /\ ast[1][1] = "Expression"
    /\ tokens[Len(tokens) - 1].kind = "SemiColon"
    /\ CountKind(tokens, "SemiColon") = 1
    /\ \A i \in 2..(Len(tokens) - 1) :
          tokens[i].kind \notin {"OpenTag", "CloseTag", "InlineHtml"} \cup CommentKinds

\* the expression of the input
ExpressionSource == SubSeq(SourceOf(tokens), 1, Len(tokens) - 3)

\* parse of the statement  E ;
ParseOne(E) == top_level_statement(Lex(E \o <<K("SemiColon")>>), 2)
ParsesTo(E, tree) ==
    /\ ParseOne(E).ok
    /\ ParseOne(E).v = ExprStmt(tree)
    /\ ParseOne(E).p = Len(E) + 3

\* the operator token of a prefix node
PrefixKindOf ==
    ("Print" :> "Print") @@
    [ BooleanNot |-> "Bang", Negate |-> "Minus", UnaryPlus |-> "Plus",
      BitwiseNot |-> "BitwiseNot", PreDecrement |-> "Decrement",
      PreIncrement |-> "Increment", ErrorSuppress |-> "At" ]

RECURSIVE IsPrintable(_)
\* the trees the printer below writes: variables, integers, and the
\* operators on them
IsPrintable(e) ==
    CASE e[1] \in {"Variable", "LiteralInteger"} -> TRUE
      [] e[1] = "Infix" -> IsPrintable(e[2]) /\ IsPrintable(e[4])
      [] e[1] \in DOMAIN PrefixKindOf -> IsPrintable(e[2])
      [] e[1] = "Cast" -> IsPrintable(e[3])
      [] e[1] = "Ternary" ->
           /\ IsPrintable(e[2])
           /\ (e[3] = None \/ IsPrintable(e[3][2]))
           /\ IsPrintable(e[4])
      [] e[1] = "Coalesce" -> IsPrintable(e[2]) /\ IsPrintable(e[3])
      [] e[1] \in {"Increment", "Decrement"} -> IsPrintable(e[2])
      [] e[1] = "ArrayIndex" ->
           IsPrintable(e[2]) /\ (e[3] = None \/ IsPrintable(e[3][2]))
      [] OTHER -> FALSE

RECURSIVE Unparse(_)
\* the tokens of a tree, with parentheses around each sub-expression
Unparse(e) ==
    CASE e[1] = "Variable" -> <<V(e[2])>>
      [] e[1] = "LiteralInteger" -> <<I(e[2])>>
      [] e[1] = "Infix" ->
           Parens(Unparse(e[2])) \o <<K(e[3])>> \o Parens(Unparse(e[4]))
      [] e[1] \in DOMAIN PrefixKindOf ->
           <<K(PrefixKindOf[e[1]])>> \o Parens(Unparse(e[2]))
      [] e[1] = "Cast" -> <<K(e[2])>> \o Parens(Unparse(e[3]))
      [] e[1] = "Ternary" ->
           IF e[3] = None
           THEN Parens(Unparse(e[2])) \o <<K("QuestionColon")>>
                \o Parens(Unparse(e[4]))
           ELSE Parens(Unparse(e[2])) \o <<K("Question")>>
                \o Parens(Unparse(e[3][2])) \o <<K("Colon")>>
                \o Parens(Unparse(e[4]))
      [] e[1] = "Coalesce" ->
           Parens(Unparse(e[2])) \o <<K("Coalesce")>> \o Parens(Unparse(e[3]))
      [] e[1] = "Increment" -> Parens(Unparse(e[2])) \o <<K("Increment")>>
      [] e[1] = "Decrement" -> Parens(Unparse(e[2])) \o <<K("Decrement")>>
      [] e[1] = "ArrayIndex" ->
           Parens(Unparse(e[2])) \o <<K("LeftBracket")>>
           \o (IF e[3] = None THEN <<>> ELSE Parens(Unparse(e[3][2])))
           \o <<K("RightBracket")>>

Tern(c, t, e) == <<"Ternary", c, Some(t), e>>
ShortTern(c, e) == <<"Ternary", c, None, e>>

\* parse has ended on the statement  e ;  and its tree is `tree`
Gives(e, tree) ==
    tokens = Lex(Semi(e)) => (status = "ok" /\ ast = <<ExprStmt(tree)>>)

IsTernaryInput ==
    \E i \in 1..Len(tokens) : tokens[i].kind \in {"Question", "QuestionColon"}

\* the two forms, and a ternary in the else and in the then position
TernaryForms ==
    /\ Gives(TernarySrc(<<V("a")>>, <<V("b")>>, <<V("c")>>),
             Tern(Var("a"), Var("b"), Var("c")))
    /\ Gives(ShortTernarySrc(<<V("a")>>, <<V("c")>>), ShortTern(Var("a"), Var("c")))
    /\ Gives(TernarySrc(<<V("a")>>, <<V("b")>>,
                        TernarySrc(<<V("c")>>, <<V("d")>>, <<V("e")>>)),
             Tern(Var("a"), Var("b"), Tern(Var("c"), Var("d"), Var("e"))))
    /\ Gives(TernarySrc(<<V("a")>>, TernarySrc(<<V("b")>>, <<V("c")>>, <<V("d")>>),
                        <<V("e")>>),
             Tern(Var("a"), Tern(Var("b"), Var("c"), Var("d")), Var("e")))
    /\ Gives(ShortTernarySrc(<<V("a")>>, ShortTernarySrc(<<V("b")>>, <<V("c")>>)),
             ShortTern(Var("a"), ShortTern(Var("b"), Var("c"))))
    /\ Gives(TernarySrc(<<V("a")>>, <<V("b")>>,
                        ShortTernarySrc(<<V("c")>>, <<V("d")>>)),
             Tern(Var("a"), Var("b"), ShortTern(Var("c"), Var("d"))))
    /\ Gives(ShortTernarySrc(<<V("a")>>,
                             TernarySrc(<<V("b")>>, <<V("c")>>, <<V("d")>>)),
             ShortTern(Var("a"), Tern(Var("b"), Var("c"), Var("d"))))
    /\ Gives(<<V("x"), K("Equals")>>
             \o TernarySrc(<<V("a")>>, <<V("b")>>, <<V("c")>>),
             Bin(Var("x"), "Equals", Tern(Var("a"), Var("b"), Var("c"))))

\* the condition takes every operator that binds tighter than `? :`
TernaryCondition ==
    /\ \A op \in TighterThanTernary :
          /\ Gives(TernarySrc(<<V("a"), K(op), V("b")>>, <<V("c")>>, <<V("d")>>),
                   Tern(Bin(Var("a"), op, Var("b")), Var("c"), Var("d")))
          /\ Gives(ShortTernarySrc(<<V("a"), K(op), V("b")>>, <<V("c")>>),
                   ShortTern(Bin(Var("a"), op, Var("b")), Var("c")))
          /\ Gives(TernarySrc(<<V("a")>>, <<V("b")>>, <<V("c"), K(op), V("d")>>),
                   Tern(Var("a"), Var("b"), Bin(Var("c"), op, Var("d"))))
    /\ Gives(TernarySrc(<<K("Bang"), V("a")>>, <<V("b")>>, <<V("c")>>),
             Tern(<<"BooleanNot", Var("a")>>, Var("b"), Var("c")))
    /\ Gives(TernarySrc(<<V("a"), K("Coalesce"), V("b")>>, <<V("c")>>, <<V("d")>>),
             Tern(<<"Coalesce", Var("a"), Var("b")>>, Var("c"), Var("d")))

\* C23: `c ? t : e` gives Ternary(c, Some(t), e) and `c ?: e` gives
\* Ternary(c, None, e); the operator is right-associative, so
\* `a ? b : c ? d : e` gives Ternary(a, Some(b), Ternary(c, Some(d), e))
\* without error; and the condition takes every operator that binds
\* tighter than `? :`, as in `a || b ? c : d`.
C23_Ternary ==
    (Done /\ IsTernaryInput) => (TernaryForms /\ TernaryCondition)

\* $a ? $b : $c ? $d : $e; has been parsed
C23_Witness ==
    /\ tokens = Lex(Semi(TernarySrc(<<V("a")>>, <<V("b")>>,
                                     TernarySrc(<<V("c")>>, <<V("d")>>, <<V("e")>>))))
    /\ status = "ok"
    /\ ast = <<ExprStmt(Tern(Var("a"), Var("b"), Tern(Var("c"), Var("d"), Var("e"))))>>

\* $a || $b ? $c : $d; has been parsed
C23_WitnessCondition ==
    /\ tokens = Lex(Semi(TernarySrc(<<V("a"), K("BooleanOr"), V("b")>>,
                                     <<V("c")>>, <<V("d")>>)))
    /\ ast = <<ExprStmt(Tern(Bin(Var("a"), "BooleanOr", Var("b")), Var("c"), Var("d")))>>
Coal(l, r) == <<"Coalesce", l, r>>

IsCoalesceInput ==
    \E i \in 1..Len(tokens) : tokens[i].kind = "Coalesce"

\* the infix operators below `??` (the assignments, `? :` and `?:`) and
\* those above it (from `||` upwards; `and`, `or`, `xor` count with `&&`,
\* `||` in Precedence::infix)
LooserThanCoalesce ==
    { op \in BinaryOps : Precedence_infix(op) < Precedence_NullCoalesce }
TighterThanCoalesce ==
    { op \in BinaryOps : Precedence_infix(op) > Precedence_NullCoalesce }

\* `??` is right-associative
CoalesceRightAssociative ==
    /\ Gives(CoalesceSrc(<<V("a")>>, <<V("b")>>), Coal(Var("a"), Var("b")))
    /\ Gives(CoalesceSrc(<<V("a")>>, CoalesceSrc(<<V("b")>>, <<V("c")>>)),
             Coal(Var("a"), Coal(Var("b"), Var("c"))))

\* `??` is above the ternary and the assignments, below `||` and the rest
CoalesceLevel ==
    /\ LooserThanCoalesce = AssignmentOps
    /\ "BooleanOr" \in TighterThanCoalesce
    /\ TighterThanCoalesce \cup LooserThanCoalesce = BinaryOps
    /\ \A op \in TighterThanCoalesce :
          /\ Gives(CoalesceSrc(<<V("a")>>, <<V("b"), K(op), V("c")>>),
                   Coal(Var("a"), Bin(Var("b"), op, Var("c"))))
          /\ Gives(CoalesceSrc(<<V("a"), K(op), V("b")>>, <<V("c")>>),
                   Coal(Bin(Var("a"), op, Var("b")), Var("c")))
    /\ \A op \in LooserThanCoalesce :
          /\ Gives(CoalesceSrc(<<V("a")>>, <<V("b"), K(op), V("c")>>),
                   Bin(Coal(Var("a"), Var("b")), op, Var("c")))
          /\ Gives(CoalesceSrc(<<V("a"), K(op), V("b")>>, <<V("c")>>),
                   Bin(Var("a"), op, Coal(Var("b"), Var("c"))))
    /\ Gives(TernarySrc(<<V("a")>>, <<V("b")>>, CoalesceSrc(<<V("c")>>, <<V("d")>>)),
             Tern(Var("a"), Var("b"), Coal(Var("c"), Var("d"))))
    /\ Gives(ShortTernarySrc(CoalesceSrc(<<V("a")>>, <<V("b")>>), <<V("c")>>),
             ShortTern(Coal(Var("a"), Var("b")), Var("c")))
    /\ Gives(CoalesceSrc(<<K("Bang"), V("a")>>, <<V("b")>>),
             Coal(<<"BooleanNot", Var("a")>>, Var("b")))

\* C24: `??` is right-associative and sits between the ternary and `||`:
\* `a ?? b ?? c` gives Coalesce(a, Coalesce(b, c)), `a ?? b || c` gives
\* Coalesce(a, Infix(b, ||, c)) and `x = a ?? b` gives
\* Infix(x, =, Coalesce(a, b)).
C24_Coalesce ==
    (Done /\ IsCoalesceInput) => (CoalesceRightAssociative /\ CoalesceLevel)

\* $a ?? $b ?? $c; has been parsed
C24_Witness ==
    /\ tokens = Lex(Semi(CoalesceSrc(<<V("a")>>, CoalesceSrc(<<V("b")>>, <<V("c")>>))))
    /\ status = "ok"
    /\ ast = <<ExprStmt(Coal(Var("a"), Coal(Var("b"), Var("c"))))>>

\* $a ?? $b || $c; has been parsed
C24_WitnessOr ==
    /\ tokens = Lex(Semi(CoalesceSrc(<<V("a")>>, <<V("b"), K("BooleanOr"), V("c")>>)))
    /\ ast = <<ExprStmt(Coal(Var("a"), Bin(Var("b"), "BooleanOr", Var("c"))))>>

\* $a = $b ?? $c; has been parsed
C24_WitnessAssignment ==
    /\ tokens = Lex(Semi(CoalesceSrc(<<V("a"), K("Equals"), V("b")>>, <<V("c")>>)))
    /\ ast = <<ExprStmt(Bin(Var("a"), "Equals", Coal(Var("b"), Var("c"))))>>
\* the node of a postfix form applied to the expression e
PostfixTree(form, e) ==
    CASE form = "inc" -> <<"Increment", e>>
      [] form = "dec" -> <<"Decrement", e>>
      [] form = "call" -> <<"Call", e, <<>>>>
      [] form = "index" -> <<"ArrayIndex", e, Some(IntLit("0"))>>
      [] form = "prop" -> <<"PropertyFetch", e, <<"Identifier", "p">>>>
      [] form = "nprop" -> <<"NullsafePropertyFetch", e, <<"Identifier", "p">>>>
      [] form = "method" -> <<"MethodCall", e, <<"Identifier", "p">>, <<>>>>
      [] form = "nmethod" -> <<"NullsafeMethodCall", e, <<"Identifier", "p">>, <<>>>>
      [] form = "const" -> <<"ConstFetch", e, "p">>
      [] form = "sprop" -> <<"StaticPropertyFetch", e, Var("p")>>
      [] form = "smethod" -> <<"StaticMethodCall", e, <<"Identifier", "p">>, <<>>>>
      [] form = "chain" ->
           <<"Increment",
             <<"ArrayIndex", <<"PropertyFetch", e, <<"Identifier", "p">>>>,
               Some(IntLit("0"))>>>>

IsPostfixInput ==
    /\ Len(tokens) >= 5
    /\ \/ tokens[3].kind \in {"Increment", "Decrement", "LeftParen", "LeftBracket",
                               "Arrow", "NullsafeArrow", "DoubleColon"}
       \/ tokens[4].kind \in {"Increment", "Decrement", "LeftParen", "LeftBracket",
                               "Arrow", "NullsafeArrow", "DoubleColon"}
       \/ tokens[5].kind \in {"Increment", "Decrement", "LeftParen", "LeftBracket",
                               "Arrow", "NullsafeArrow", "DoubleColon"}

\* a postfix form after the right or the left operand of an infix operator
\* belongs to that operand
PostfixUnderInfix ==
    \A f \in PostfixForms :
      /\ \A op \in BinaryOps :
            /\ Gives(<<V("a"), K(op), V("b")>> \o PostfixSrc(f),
                     Bin(Var("a"), op, PostfixTree(f, Var("b"))))
            /\ Gives(<<V("a")>> \o PostfixSrc(f) \o <<K(op), V("b")>>,
                     Bin(PostfixTree(f, Var("a")), op, Var("b")))
      /\ Gives(CoalesceSrc(<<V("a")>>, <<V("b")>> \o PostfixSrc(f)),
               Coal(Var("a"), PostfixTree(f, Var("b"))))
      /\ Gives(TernarySrc(<<V("a")>>, <<V("b")>>, <<V("c")>> \o PostfixSrc(f)),
               Tern(Var("a"), Var("b"), PostfixTree(f, Var("c"))))

\* a postfix form after the operand of a prefix operator belongs to the
\* operand
PostfixUnderPrefix ==
    \A f \in PostfixForms :
      /\ \A pre \in PrefixKinds :
            Gives(<<K(pre), V("a")>> \o PostfixSrc(f),
                  prefix(pre, PostfixTree(f, Var("a"))))
      /\ Gives(<<K("Clone"), V("a")>> \o PostfixSrc(f),
               <<"Clone", PostfixTree(f, Var("a"))>>)

\* C25: postfix `++`/`--`, call, index and member access bind tighter than
\* every infix and every prefix operator, so they apply to the nearest
\* operand on their left only: `a + b++` gives Infix(a, +, Increment(b)),
\* `a * b[0]` gives Infix(a, *, ArrayIndex(b, 0)) and `-a->p` gives
\* Negate(PropertyFetch(a, p)).
C25_PostfixBindsTightest ==
    (Done /\ IsPostfixInput) => (PostfixUnderInfix /\ PostfixUnderPrefix)

\* $a + $b++; has been parsed
C25_Witness ==
    /\ tokens = Lex(Semi(<<V("a"), K("Plus"), V("b"), K("Increment")>>))
    /\ status = "ok"
    /\ ast = <<ExprStmt(Bin(Var("a"), "Plus", <<"Increment", Var("b")>>))>>

\* -$a->p; has been parsed
C25_WitnessPrefix ==
    /\ tokens = Lex(Semi(<<K("Minus"), V("a"), K("Arrow"), Id("p")>>))
    /\ ast = <<ExprStmt(<<"Negate", <<"PropertyFetch", Var("a"), <<"Identifier", "p">>>>>>)>>
IsPrefixInput ==
    /\ Len(tokens) >= 5
    /\ tokens[2].kind \in PrefixKinds

\* the tree of  pre a op b  for an operator of the level `level`: the
\* operator is in the operand when it binds tighter than `pre`, and takes
\* the prefix expression as its left operand when it binds looser
PrefixWith(pre, level, a, inside, outside) ==
    IF level > Precedence_prefix(pre) THEN prefix(pre, inside)
    ELSE outside

PrefixUnderInfix ==
    \A pre \in PrefixKinds :
      /\ \A op \in BinaryOps :
            /\ Precedence_infix(op) # Precedence_prefix(pre)
            /\ Gives(<<K(pre), V("a"), K(op), V("b")>>,
                     PrefixWith(pre, Precedence_infix(op), Var("a"),
                                Bin(Var("a"), op, Var("b")),
                                Bin(prefix(pre, Var("a")), op, Var("b"))))
      /\ Gives(<<K(pre)>> \o CoalesceSrc(<<V("a")>>, <<V("b")>>),
               PrefixWith(pre, Precedence_NullCoalesce, Var("a"),
                          Coal(Var("a"), Var("b")),
                          Coal(prefix(pre, Var("a")), Var("b"))))
      /\ Gives(<<K(pre)>> \o TernarySrc(<<V("a")>>, <<V("b")>>, <<V("c")>>),
               PrefixWith(pre, Precedence_Ternary, Var("a"),
                          Tern(Var("a"), Var("b"), Var("c")),
                          Tern(prefix(pre, Var("a")), Var("b"), Var("c"))))
      /\ Gives(<<K(pre)>> \o ShortTernarySrc(<<V("a")>>, <<V("b")>>),
               PrefixWith(pre, Precedence_Ternary, Var("a"),
                          ShortTern(Var("a"), Var("b")),
                          ShortTern(prefix(pre, Var("a")), Var("b"))))

\* the four examples
PrefixExamples ==
    /\ Gives(<<K("Minus"), V("a"), K("Plus"), V("b")>>,
             Bin(<<"Negate", Var("a")>>, "Plus", Var("b")))
    /\ Gives(<<K("Bang"), V("a"), K("BooleanAnd"), V("b")>>,
             Bin(<<"BooleanNot", Var("a")>>, "BooleanAnd", Var("b")))
    /\ Gives(<<K("Minus"), V("a"), K("Pow"), V("b")>>,
             <<"Negate", Bin(Var("a"), "Pow", Var("b"))>>)
    /\ Gives(<<K("Bang"), V("a"), K("Instanceof"), V("b")>>,
             <<"BooleanNot", Bin(Var("a"), "Instanceof", Var("b"))>>)

\* C26: the operand of a prefix operator is parsed at the operator's own
\* precedence: infix operators that bind looser are not taken into the
\* operand and those that bind tighter are. `-a + b` gives
\* Infix(Negate(a), +, b), `!a && b` gives Infix(BooleanNot(a), &&, b),
\* `-a ** b` gives Negate(Infix(a, **, b)) and `!a instanceof B` gives
\* BooleanNot(Infix(a, instanceof, B)).
C26_PrefixOperand ==
    (Done /\ IsPrefixInput) => (PrefixUnderInfix /\ PrefixExamples)

\* -$a + $b; has been parsed
C26_Witness ==
    /\ tokens = Lex(Semi(<<K("Minus"), V("a"), K("Plus"), V("b")>>))
    /\ status = "ok"
    /\ ast = <<ExprStmt(Bin(<<"Negate", Var("a")>>, "Plus", Var("b")))>>

\* -$a ** $b; has been parsed
C26_WitnessTighter ==
    /\ tokens = Lex(Semi(<<K("Minus"), V("a"), K("Pow"), V("b")>>))
    /\ ast = <<ExprStmt(<<"Negate", Bin(Var("a"), "Pow", Var("b"))>>)>>
\* a call that started at the cursor p has not moved the cursor backwards,
\* and when it returned a value it has consumed a token of the vector
Advances(r, p) ==
    /\ r.p >= p
    /\ r.ok => (r.p > p /\ r.p <= Len(tokens))

\* the levels the operands of the model's inputs are parsed at
OperandLevels ==
    {Precedence_Lowest, Precedence_Assignment, Precedence_NullCoalesce,
     Precedence_AddSub, Precedence_Prefix, Precedence_CloneOrNew}

\* every call a loop body makes advances, from every cursor of the vector
CallsAdvance ==
    \A p \in 2..(Len(tokens) - 1) :
      /\ Advances(top_level_statement(tokens, p), p)
      /\ Advances(statement(tokens, p), p)
      /\ \A level \in OperandLevels : Advances(expression(tokens, p, level), p)
      /\ is_postfix(tokens[p].kind) =>
            Advances(postfix(tokens, p, Var("x"), tokens[p].kind), p)
      /\ is_infix(tokens[p].kind) =>
            Advances(infix_led(tokens, next(p), Var("x"), tokens[p].kind,
                               Precedence_infix(tokens[p].kind)), p)
      /\ Advances(interpolated_string_part(tokens, p), p)

\* at the end of the vector every call of a loop body returns an error
CallsFailAtEof ==
    LET p == Len(tokens) IN
    /\ ~statement(tokens, p).ok
    /\ ~expression(tokens, p, Precedence_Lowest).ok
    /\ ~interpolated_string_part(tokens, p).ok

\* `function &`: the look at the token after `&` consumes nothing, the
\* expression statement starts at `function`
LookaheadConsumesNothing ==
    \A p \in 2..(Len(tokens) - 1) :
      (function_arm_guard(tokens, p) /\ ampersand_starts_closure(tokens, p)) =>
        /\ statement(tokens, p).ok = expression_statement(tokens, p).ok
        /\ statement(tokens, p).v = expression_statement(tokens, p).v
        /\ statement(tokens, p).p = expression_statement(tokens, p).p

LoopsAdvance ==
    (status = "running" /\ pos = 1) =>
        (CallsAdvance /\ CallsFailAtEof /\ LookaheadConsumesNothing)

\* every step of the loop of parse moves the cursor forwards or ends parse,
\* and no step moves it backwards
ParseLoopAdvances ==
    /\ pos' >= pos
    /\ pos' > pos \/ status' # "running"

\* while parse runs the cursor is inside the vector and one of the branches
\* of the loop can act
StepPossible ==
    /\ pos <= Len(tokens)
    /\ status = "running" =>
          \/ current(tokens, pos).kind \in {"OpenTag", "CloseTag", "Eof"}
          \/ is_eof(tokens, gather_comments(tokens, pos))
          \/ top_level_statement(tokens, gather_comments(tokens, pos)).ok \in BOOLEAN

C27_WitnessOk ==
    /\ status = "ok"
    /\ Len(ast) >= 2
    /\ tokens \in { Lex(src) : src \in TruncatedInputs \ TruncatedFamilies }
\* the statement the step has pushed
Pushed == ast'[Len(ast')]
PushesUse == Len(ast') = Len(ast) + 1 /\ Pushed[1] = "Use"

\* the Use statement a step pushes has an item and ends with `;`
UseHasItemAndSemiColon ==
    PushesUse => (Len(Pushed[2]) >= 1 /\ tokens[pos' - 1].kind = "SemiColon")

\* the vector ends with `use`, `use function` or `use const`
UseKeywordAtEnd ==
    \/ tokens[Len(tokens) - 1].kind = "Use"
    \/ /\ tokens[Len(tokens) - 1].kind \in {"Function", "Const"}
       /\ tokens[Len(tokens) - 2].kind = "Use"

\* C28: every Use statement of a program that parse returns has at least
\* one item and was closed by a `;`; `use`, `use function` or `use const`
\* directly before the end of the token vector makes parse return an error.
C28_UseHasItems ==
    /\ [][UseHasItemAndSemiColon]_vars
    /\ []((Done /\ UseKeywordAtEnd) => status = "err")

\* the Use statements whose loop ended at a `;` are as the claim says: a Use
\* statement that does not end at the end of the vector has an item and
\* its `;`
UseBeforeEofHasItems ==
    (PushesUse /\ ~is_eof(tokens, pos')) => 
        (Len(Pushed[2]) >= 1 /\ tokens[pos' - 1].kind = "SemiColon")
ClosedUseHasItems == [][UseBeforeEofHasItems]_vars

\* `use` before the end of the vector has given a Use statement without items
EmptyUseIsReturned ==
    /\ tokens = Lex(<<K("Use")>>)
    /\ status = "ok"
    /\ ast = <<Statement_Use(<<>>, "Normal")>>

\* `use A as B,` before the end of the vector has given a Use statement
\* that no `;` closes
OpenUseIsReturned ==
    /\ tokens = Lex(<<K("Use"), Id("A"), K("As"), Id("B"), K("Comma")>>)
    /\ status = "ok"
    /\ ast = <<Statement_Use(<<Use("A", Some("B"))>>, "Normal")>>
HasBackslash(bytes) == \E i \in 1..Len(bytes) : bytes[i] = Backslash

\* a byte string has been written with {:?}
DebugWritten == fmt_output # None /\ fmt_value[1] = "ByteString"

\* C29: the Debug rendering of ByteString is injective: two byte strings
\* that differ in a byte never have the same rendering.
C29_DebugInjective ==
    DebugWritten =>
        \A other \in ByteStrings :
            other # fmt_value[2] => Some(fmt_debug(other)) # fmt_output

\* byte strings without a backslash are told apart by their rendering
DebugInjectiveWithoutBackslash ==
    (DebugWritten /\ ~HasBackslash(fmt_value[2])) =>
        \A other \in ByteStrings :
            (other # fmt_value[2] /\ ~HasBackslash(other)) =>
                Some(fmt_debug(other)) # fmt_output

\* the byte 0 and the two bytes `\`, `0` have been written alike
NulLooksLikeBackslashZero ==
    /\ fmt_value = <<"ByteString", <<0>>>>
    /\ fmt_output = Some(fmt_debug(<<Backslash, 48>>))
\* the kinds of TokenKind
TokenKinds ==
    DOMAIN DisplayTable \cup PayloadKinds
    \cup {"Variable", "InlineHtml", "StartDocString", "EndDocString"}

\* postfix called for the operator `kind` before the end of a vector
PostfixOn(kind) ==
    postfix(<<Token(kind, "", 1), Token("Eof", "", 2)>>, 1, Var("x"), kind)

\* every kind of is_postfix has an arm of its own in postfix, every kind of
\* is_prefix has one in prefix, and the loop of expression, which asks
\* is_postfix before is_infix, has no kind that is both
ArmsCoverThePredicates ==
    /\ \A kind \in TokenKinds :
          /\ is_postfix(kind) => PostfixOn(kind).v[1] # "panic"
          /\ is_prefix(kind) => prefix(kind, Var("x"))[1] # "panic"
          /\ ~(is_postfix(kind) /\ is_infix(kind))
    /\ { kind \in TokenKinds : is_postfix(kind) } =
         {"Increment", "Decrement", "LeftParen", "LeftBracket", "Arrow",
          "NullsafeArrow", "DoubleColon", "Coalesce"}

\* the arms that panic are there: a kind outside the predicates reaches them
PanickingArmsExist ==
    /\ PostfixOn("Dot").v = Panic("todo!")
    /\ prefix("Dot", Var("x")) = Panic("unreachable!")

\* postfix called at every postfix operator of the vector does not panic
PostfixCallsDoNotPanic ==
    \A p \in 2..(Len(tokens) - 1) :
        is_postfix(tokens[p].kind) =>
            postfix(tokens, p, Var("x"), tokens[p].kind).v[1] # "panic"

\* C30: the panicking arms of postfix and prefix are not reached from
\* Parser::expression: postfix is called only for a kind of is_postfix and
\* has an arm other than todo! for each of them, prefix is called only for
\* a kind of is_prefix and has an arm other than unreachable! for each of
\* them, and no kind is both in is_postfix and in is_infix.
C30_NoPanickingArm ==
    /\ error[1] # "panic"
    /\ (status = "running" /\ pos = 1) =>
          (ArmsCoverThePredicates /\ PanickingArmsExist /\ PostfixCallsDoNotPanic)

\* !$a?->p; has been parsed: a prefix and a postfix operator have been met
C30_Witness ==
    /\ tokens = Lex(Semi(<<K("Bang"), V("a"), K("NullsafeArrow"), Id("p")>>))
    /\ status = "ok"
    /\ ast = <<ExprStmt(<<"BooleanNot",
                          <<"NullsafePropertyFetch", Var("a"), <<"Identifier", "p">>>>>>)>>
====
